---- MODULE Spec2Model ----
(***************************************************************************)
(* State-machine model of the installation scripts of                      *)
(* gridatek/ecommerce-starter:                                             *)
(*   scripts/install-backend.js   ("backend")                              *)
(*   scripts/install.js           ("master")                               *)
(*   scripts/check-prerequisites.js            ("check")                   *)
(*   the platform-aware prerequisite checker   ("checkpf")                 *)
(*                                                                         *)
(* Strings are sequences of atoms.  An atom is a single character, or a    *)
(* run of characters no operation of the scripts ever splits (a fixed      *)
(* piece of text, a placeholder key name).                                 *)
(***************************************************************************)
EXTENDS Integers, Sequences, FiniteSets, TLC

(***************************************************************************)
(* Bounds                                                                  *)
(***************************************************************************)
\* most consecutive dollar signs in a password (environment value or typed
\* answer) that is enumerated
MaxDollars == 2

\* most pieces (placeholders, runs of plain text) of a template handed to
\* processTemplate on its own
MaxPieces == 2

\* largest byte length handed to generateSecret on its own
MaxSecretBytes == 2

(***************************************************************************)
(* Strings                                                                 *)
(***************************************************************************)
\* n dollar signs
Dollars(n) == [i \in 1..n |-> "$"]

\* passwords: the empty one, and an ordinary character followed by dollar
\* signs, which String.prototype.replace treats specially in a replacement
PasswordValues == {<<>>} \cup {<<"p">> \o Dollars(n) : n \in 0..MaxDollars}

\* String.prototype.toLowerCase, on the characters that occur in answers
toLowerCaseChar(c) ==
    CASE c = "Y" -> "y"
      [] c = "E" -> "e"
      [] c = "S" -> "s"
      [] c = "N" -> "n"
      [] c = "O" -> "o"
      [] OTHER   -> c

toLowerCase(s) == [i \in 1..Len(s) |-> toLowerCaseChar(s[i])]

\* lines a user may type at a yes/no prompt
YesNoAnswers ==
    { <<>>, <<"y">>, <<"n">>, <<"Y", "e", "S">>, <<"y", "e">> }

\* mutant: only 'y' is taken as a yes
IsAffirmative_onlyY(answer) ==
    toLowerCase(answer) = <<"y">>

\* answer.toLowerCase() === 'y' || answer.toLowerCase() === 'yes'
IsAffirmative(answer) ==
    \/ toLowerCase(answer) = <<"y">>
    \/ toLowerCase(answer) = <<"y", "e", "s">>

(***************************************************************************)
(* question(): the prompt helper of both installers                        *)
(***************************************************************************)
\* mutant: question() without its CI branch
question_noCiBranch(ci, query) ==
    [resolved |-> FALSE, answer |-> <<>>, opens |-> 1, query |-> query]

\* In CI the promise is already resolved with '' and no interface is
\* created; otherwise one interface is created and one read is pending.
question(ci, query) ==
    IF ci
    THEN [resolved |-> TRUE,  answer |-> <<>>, opens |-> 0, query |-> query]
    ELSE [resolved |-> FALSE, answer |-> <<>>, opens |-> 1, query |-> query]

(***************************************************************************)
(* processTemplate: String.prototype.replace with a global RegExp built    *)
(* from `{{${key}}}` and a replacement STRING, whose $-patterns are        *)
(* expanded by the engine                                                  *)
(***************************************************************************)
\* the text the RegExp `{{KEY}}` matches (the key names of createEnvFile
\* hold no regular-expression metacharacter)
TokenOf(key) == <<"{", "{">> \o key \o <<"}", "}">>

MatchesAt(s, pat, i) ==
    /\ i + Len(pat) - 1 <= Len(s)
    /\ \A k \in 1..Len(pat) : s[i + k - 1] = pat[k]

\* the characters ` and ' of a replacement pattern; the backquote is
\* written as a word, since inside a TLA+ string it opens a quotation
Backquote  == "backquote"
Apostrophe == "'"

\* GetSubstitution of a replacement string, for a RegExp without capture
\* groups: $$ -> $, $& -> the match, $` -> the text before it, $' -> the
\* text after it, every other $ is literal
RECURSIVE Expand(_, _, _, _, _)
Expand(value, i, matched, before, after) ==
    IF i > Len(value) THEN <<>>
    ELSE IF value[i] = "$" /\ i < Len(value) /\ value[i + 1] = "$"
         THEN <<"$">> \o Expand(value, i + 2, matched, before, after)
    ELSE IF value[i] = "$" /\ i < Len(value) /\ value[i + 1] = "&"
         THEN matched \o Expand(value, i + 2, matched, before, after)
    ELSE IF value[i] = "$" /\ i < Len(value) /\ value[i + 1] = Backquote
         THEN before \o Expand(value, i + 2, matched, before, after)
    ELSE IF value[i] = "$" /\ i < Len(value) /\ value[i + 1] = Apostrophe
         THEN after \o Expand(value, i + 2, matched, before, after)
    ELSE <<value[i]>> \o Expand(value, i + 1, matched, before, after)

\* mutant: the RegExp has no g flag, only the first match is replaced
RECURSIVE ReplaceFrom_firstOnly(_, _, _, _)
ReplaceFrom_firstOnly(s, pat, value, i) ==
    IF i > Len(s) THEN <<>>
    ELSE IF MatchesAt(s, pat, i)
         THEN Expand(value, 1, pat, SubSeq(s, 1, i - 1),
                     SubSeq(s, i + Len(pat), Len(s)))
              \o SubSeq(s, i + Len(pat), Len(s))
    ELSE <<s[i]>> \o ReplaceFrom_firstOnly(s, pat, value, i + 1)

\* content.replace(regex, value) with the g flag: every leftmost,
\* non-overlapping match of the original text is replaced, the result is
\* not scanned again
RECURSIVE ReplaceFrom(_, _, _, _)
ReplaceFrom(s, pat, value, i) ==
    IF i > Len(s) THEN <<>>
    ELSE IF MatchesAt(s, pat, i)
         THEN Expand(value, 1, pat, SubSeq(s, 1, i - 1),
                     SubSeq(s, i + Len(pat), Len(s)))
              \o ReplaceFrom(s, pat, value, i + Len(pat))
    ELSE <<s[i]>> \o ReplaceFrom(s, pat, value, i + 1)

\* replacements is Object.entries(replacements): the pairs <<key, value>> in
\* insertion order
RECURSIVE processTemplate(_, _)
processTemplate(content, replacements) ==
    IF replacements = <<>> THEN content
    ELSE processTemplate(
             ReplaceFrom(content, TokenOf(Head(replacements)[1]),
                         Head(replacements)[2], 1),
             Tail(replacements))

\* s has part as a contiguous piece
Contains(s, part) == \E i \in 1..(Len(s) + 1) : MatchesAt(s, part, i)

(***************************************************************************)
(* The .env artifact                                                       *)
(***************************************************************************)
NoConfig == [built |-> FALSE]

\* the connection string of createBasicEnvFile
dbUrl(cfg) ==
    <<"postgres://">> \o cfg.user \o <<":">> \o cfg.password \o <<"@">>
        \o cfg.host \o <<":">> \o cfg.port \o <<"/">> \o cfg.name

\* the hard-coded minimal .env of createBasicEnvFile
BasicEnvContent(cfg, jwt, cookie) ==
    <<"DATABASE_URL=">> \o dbUrl(cfg)
        \o <<"\n", "REDIS_URL=redis://localhost:6379", "\n", "JWT_SECRET=">> \o jwt
        \o <<"\n", "COOKIE_SECRET=">> \o cookie
        \o <<"\n", "MEDUSA_BACKEND_URL=http://localhost:9000", "\n">>

\* scripts/templates/.env.template: the same key set as the minimal variant,
\* each value a {{KEY}} placeholder
EnvTemplate ==
    <<"DATABASE_URL=", "postgres://">>
        \o TokenOf(<<"DB_USER">>) \o <<":">> \o TokenOf(<<"DB_PASSWORD">>) \o <<"@">>
        \o TokenOf(<<"DB_HOST">>) \o <<":">> \o TokenOf(<<"DB_PORT">>) \o <<"/">>
        \o TokenOf(<<"DB_NAME">>)
        \o <<"\n", "REDIS_URL=redis://localhost:6379", "\n", "JWT_SECRET=">>
        \o TokenOf(<<"JWT_SECRET">>)
        \o <<"\n", "COOKIE_SECRET=">> \o TokenOf(<<"COOKIE_SECRET">>)
        \o <<"\n", "MEDUSA_BACKEND_URL=http://localhost:9000", "\n">>

\* the replacements object of createEnvFile, in its insertion order
replacementsOf(cfg, jwt, cookie) ==
    << <<<<"DB_USER">>, cfg.user>>,
       <<<<"DB_PASSWORD">>, cfg.password>>,
       <<<<"DB_HOST">>, cfg.host>>,
       <<<<"DB_PORT">>, cfg.port>>,
       <<<<"DB_NAME">>, cfg.name>>,
       <<<<"JWT_SECRET">>, jwt>>,
       <<<<"COOKIE_SECRET">>, cookie>> >>

\* the digits Buffer.prototype.toString('hex') writes
HexDigits ==
    << "0", "1", "2", "3", "4", "5", "6", "7", "8", "9", "a", "b", "c", "d", "e", "f" >>

\* mutant: a byte below 16 is written without its leading zero
hexOfByte_unpadded(byte) ==
    IF byte < 16 THEN <<HexDigits[byte + 1]>>
    ELSE <<HexDigits[(byte \div 16) + 1], HexDigits[(byte % 16) + 1]>>

\* one byte in hex: the high nibble, then the low nibble
hexOfByte(byte) == <<HexDigits[(byte \div 16) + 1], HexDigits[(byte % 16) + 1]>>

\* buffer.toString('hex')
RECURSIVE toHexString(_)
toHexString(bytes) ==
    IF bytes = <<>> THEN <<>> ELSE hexOfByte(Head(bytes)) \o toHexString(Tail(bytes))

\* bytes crypto.randomBytes may deliver: the ends of the range, and values
\* on both sides of the one-digit / two-digit boundary
ByteValues == {0, 9, 10, 15, 16, 171, 255}

\* crypto.randomBytes(length): any buffer of that many bytes
randomBytes(length) == [1..length -> ByteValues]

\* generateSecret(length), when crypto.randomBytes(length) delivered bytes
generateSecretOf(bytes) == toHexString(bytes)

\* generateSecret: crypto.randomBytes(length).toString('hex'); the token of
\* the call-th invocation, a fresh value for every invocation
generateSecret(call) == <<"hex", ToString(call)>>

\* mutant: one generated token used for both fields
secretsFor_oneToken(ci, calls) ==
    IF ci
    THEN [jwt |-> <<"test-jwt-secret">>, cookie |-> <<"test-cookie-secret">>, calls |-> calls]
    ELSE [jwt |-> generateSecret(calls + 1), cookie |-> generateSecret(calls + 1),
          calls |-> calls + 1]

\* the two secrets of an artifact, and the number of generateSecret calls
\* made for them: isCI ? 'test-jwt-secret' : generateSecret(32), then
\* isCI ? 'test-cookie-secret' : generateSecret(32)
secretsFor(ci, calls) ==
    IF ci
    THEN [jwt |-> <<"test-jwt-secret">>, cookie |-> <<"test-cookie-secret">>, calls |-> calls]
    ELSE [jwt |-> generateSecret(calls + 1), cookie |-> generateSecret(calls + 2),
          calls |-> calls + 2]

(***************************************************************************)
(* commandExists / checkCommand: the generic tool check                    *)
(***************************************************************************)
\* the tools the scripts look for
Tools == {"node", "npm", "psql", "git"}

\* the ways execSync(`${command} --version`) ends: the command ran and
\* exited with 0, the binary is missing, it exited with another code, or
\* the invocation failed otherwise (not executable, killed by a signal)
ExecOutcomes == {"ok", "ENOENT", "non-zero exit", "EACCES"}

\* execSync returns the output when the command exits with 0 and throws
\* in every other case
execSync(outcome) == [threw |-> outcome # "ok"]

\* mutant: only a missing binary counts as not installed
commandExists_onlyMissing(outcome) ==
    [installed |-> outcome # "ENOENT", threw |-> FALSE]

\* commandExists of both installers:
\* try { execSync(...); return true } catch { return false }
commandExists(outcome) ==
    [installed |-> ~execSync(outcome).threw, threw |-> FALSE]

\* checkCommand of both prerequisite checkers: the same try/catch, with a
\* line logged on either side
checkCommand(outcome) ==
    [installed |-> ~execSync(outcome).threw, threw |-> FALSE,
     logged |-> IF execSync(outcome).threw THEN "Not installed" ELSE "version"]

\* what a tool check of an installer, or of a checker, may return
commandExistsResults == {commandExists(o).installed : o \in ExecOutcomes}
checkCommandResults  == {checkCommand(o).installed : o \in ExecOutcomes}

(***************************************************************************)
(* State                                                                   *)
(***************************************************************************)
VARIABLES
    prog,            \* which script runs
    isCI,            \* process.env.CI === 'true'
    nodeMajor,       \* the major version in process.version
    env,             \* the configuration environment variables
    templateExists,  \* scripts/templates/.env.template is on disk
    pc,              \* position of main
    exitCode,        \* NoExit until the process has ended
    checks,          \* the checks object of checkPrerequisites
    answers,         \* answers collected by the step that is running
    dbConfig,        \* the object getDatabaseConfig returned
    replacements,    \* the replacements object createEnvFile built
    targetExists,    \* the backend directory is on disk
    envFile,         \* backend/.env
    rmCalls,         \* number of fs.rmSync calls made
    secretCalls,     \* number of generateSecret calls made
    rlOpen,          \* readline interfaces created and not closed
    pendingPrompt,   \* the query rl.question waits on
    prompts,         \* queries issued so far
    lastAnswer,      \* the line read by the step that runs or ran last
    children,        \* child processes spawned and not closed
    childEnded,      \* how the install-backend.js child of install.js ended
    invocations,     \* commands handed to execSync / spawn so far
    started,         \* steps main has called, in order
    finished,        \* steps that returned to main, in order
    headers,         \* the [step/total] headers logStep has printed, in order
    allGood,         \* what verifyWorkspaces returned
    warnings,        \* steps whose failure was caught and only logged
    failedStep,      \* the step whose failure reached catch
    errorMsg,        \* error.message handed to handleError
    callArgs,        \* the arguments of a helper function called on its own
    callResult       \* what that call returned

constVars == <<prog, isCI, nodeMajor, env, templateExists>>
ioVars    == <<rlOpen, pendingPrompt, prompts>>
fsVars    == <<targetExists, envFile, rmCalls, secretCalls>>
procVars  == <<children, invocations>>
histVars  == <<started, finished>>
logVars   == <<headers, allGood, warnings>>
errVars   == <<failedStep, errorMsg>>
cfgVars   == <<checks, answers, dbConfig>>
callVars  == <<callArgs, callResult>>
vars == <<constVars, childEnded, callVars, replacements, pc, exitCode, cfgVars, fsVars, ioVars, lastAnswer, procVars, histVars,
          logVars, errVars>>

NoExit   == "running"
NoPrompt == "none"
NoStep   == "none"
NoChecks == [done |-> FALSE]
NoFile   == [exists |-> FALSE, content |-> <<>>]
NoCall   == [fn |-> "none"]
NotRun   == "not run"
NoMap    == [built |-> FALSE]

Unset      == [set |-> FALSE, val |-> <<>>]
SetTo(v)   == [set |-> TRUE, val |-> v]

\* process.env.X || dflt : an unset and an empty variable both give dflt
OrDefault(v, dflt) == IF v.set /\ v.val # <<>> THEN v.val ELSE dflt

\* answer || dflt
AnswerOrDefault(a, dflt) == IF a # <<>> THEN a ELSE dflt

\* the Node.js major version below which checkPrerequisites gives up
MinNodeMajor == 18

\* parseInt(process.version.slice(1).split('.')[0]) of the running Node.js
NodeMajors == {MinNodeMajor - 2, MinNodeMajor, MinNodeMajor + 2}

EmptyEnv ==
    [ DB_HOST |-> Unset, DB_PORT |-> Unset, DB_USER |-> Unset,
      DB_PASSWORD |-> Unset, DB_NAME |-> Unset,
      SKIP_USER_PROMPT |-> FALSE, SKIP_SEED_PROMPT |-> FALSE ]

\* the environment with every DB_* variable set
FullEnv ==
    [ DB_HOST |-> SetTo(<<"db.example">>), DB_PORT |-> SetTo(<<"6543">>),
      DB_USER |-> SetTo(<<"medusa">>), DB_PASSWORD |-> SetTo(<<"p">>),
      DB_NAME |-> SetTo(<<"shop">>),
      SKIP_USER_PROMPT |-> FALSE, SKIP_SEED_PROMPT |-> FALSE ]

\* environments enumerated for an automated run of install-backend.js:
\* the DB_* variables all unset or all set, every password, both skip flags
BackendEnvs ==
    { [[base EXCEPT !.DB_PASSWORD = pw] EXCEPT !.SKIP_USER_PROMPT = su, !.SKIP_SEED_PROMPT = ss] :
        base \in {EmptyEnv, FullEnv},
        pw \in {Unset} \cup {SetTo(v) : v \in PasswordValues},
        su \in BOOLEAN, ss \in BOOLEAN }

\* environments enumerated for an interactive run: the empty one, and those
\* that differ from it in one group of variables
InteractiveEnvs ==
    { EmptyEnv, FullEnv,
      [EmptyEnv EXCEPT !.SKIP_USER_PROMPT = TRUE],
      [EmptyEnv EXCEPT !.SKIP_SEED_PROMPT = TRUE] }

Programs == {"backend", "master", "check", "checkpf"}

EntryOf(p) ==
    CASE p = "backend" -> "b_checkPrerequisites"
      [] p = "master"  -> "m_checkPrerequisites"
      [] p = "check"   -> "c_main"
      [] p = "checkpf" -> "p_main"
      [] p = "question" -> "q_call"
      [] OTHER         -> "f_call"

\* the states in which one of the scripts `programs` starts
InitOf(programs) ==
    /\ prog \in programs
    /\ isCI \in (IF prog = "functions" THEN {FALSE} ELSE BOOLEAN)
    /\ nodeMajor \in (IF prog \in {"backend", "master"} THEN NodeMajors ELSE {MinNodeMajor})
    /\ env \in (IF prog # "backend" THEN {EmptyEnv}
                ELSE IF isCI THEN BackendEnvs ELSE InteractiveEnvs)
    /\ templateExists \in (IF prog = "backend" THEN BOOLEAN ELSE {FALSE})
    /\ targetExists \in (IF prog \in {"backend", "master"} THEN BOOLEAN ELSE {FALSE})
    /\ pc = EntryOf(prog)
    /\ exitCode = NoExit
    /\ checks = NoChecks
    /\ answers = <<>>
    /\ dbConfig = NoConfig
    /\ replacements = NoMap
    /\ envFile = NoFile
    /\ rmCalls = 0
    /\ secretCalls = 0
    /\ rlOpen = 0
    /\ pendingPrompt = NoPrompt
    /\ prompts = <<>>
    /\ lastAnswer = <<>>
    /\ children = {}
    /\ childEnded = NotRun
    /\ invocations = <<>>
    /\ started = <<>>
    /\ finished = <<>>
    /\ headers = <<>>
    /\ allGood = "not verified"
    /\ warnings = <<>>
    /\ callArgs = NoCall
    /\ callResult = NoCall
    /\ failedStep = NoStep
    /\ errorMsg = <<>>

Init == InitOf(Programs)

(***************************************************************************)
(* Shared pieces of the actions                                            *)
(***************************************************************************)
\* the caller hands the promise question() returned to await
Ask(q) ==
    /\ rlOpen' = rlOpen + q.opens
    /\ pendingPrompt' = IF q.resolved THEN NoPrompt ELSE q.query
    /\ prompts' = IF q.resolved THEN prompts ELSE Append(prompts, q.query)

\* the lines the awaited promise may resolve with: '' when it was created
\* resolved, a typed line otherwise
Lines(typed) == IF pendingPrompt = NoPrompt THEN {<<>>} ELSE typed

\* mutant: the callback without rl.close()
Receive_noClose(a) ==
    /\ rlOpen' = rlOpen
    /\ pendingPrompt' = NoPrompt
    /\ prompts' = prompts
    /\ lastAnswer' = a

\* rl.question's callback: rl.close(); resolve(answer)
Receive(a) ==
    /\ rlOpen' = IF pendingPrompt = NoPrompt THEN rlOpen ELSE rlOpen - 1
    /\ pendingPrompt' = NoPrompt
    /\ prompts' = prompts
    /\ lastAnswer' = a

\* main calls step s, whose locals are fresh
StepBegin(s) ==
    /\ started' = Append(started, s)
    /\ lastAnswer' = <<>>
StepEnd(s)   == finished' = Append(finished, s)

\* process.exit(code)
Exit(code) ==
    /\ pc' = "exited"
    /\ exitCode' = code

\* an exception leaves step s and reaches the catch of main
Throw(handler, s, msg) ==
    /\ pc' = handler
    /\ failedStep' = s
    /\ errorMsg' = msg
    /\ exitCode' = exitCode

Goto(next) ==
    /\ pc' = next
    /\ exitCode' = exitCode

(***************************************************************************)
(* install-backend.js                                                      *)
(***************************************************************************)
BackendSteps ==
    << "checkPrerequisites", "checkExistingBackend", "getDatabaseConfig",
       "installMedusa", "createEnvFile", "runMigrations", "createAdminUser",
       "seedDatabase", "copyAdditionalFiles", "printNextSteps" >>

\* mutant: main does not look at what checkPrerequisites returned
Backend_main_prerequisites_ignored(prerequisitesOk) ==
    Goto("b_checkExistingBackend")

\* main: if (!prerequisitesOk) process.exit(1)
Backend_main_prerequisites(prerequisitesOk) ==
    IF prerequisitesOk THEN Goto("b_checkExistingBackend") ELSE Exit(1)

\* mutant: main goes from checkExistingBackend straight to installMedusa
Backend_main_existing_skipsConfig(shouldContinue) ==
    IF shouldContinue THEN Goto("b_installMedusa") ELSE Exit(0)

\* main: if (!shouldContinue) process.exit(0)
Backend_main_existing(shouldContinue) ==
    IF shouldContinue THEN Goto("b_getDatabaseConfig") ELSE Exit(0)

\* checkPrerequisites up to its first suspension point
Backend_checkPrerequisites ==
    /\ prog = "backend"
    /\ pc = "b_checkPrerequisites"
    /\ StepBegin("checkPrerequisites")
    /\ invocations' = invocations \o <<"node --version", "npm --version", "psql --version">>
    /\ \E node \in commandExistsResults, npm \in commandExistsResults,
          psql \in commandExistsResults :
         /\ checks' = [done |-> TRUE, node |-> node, npm |-> npm, postgres |-> psql]
         /\ IF ~node \/ ~npm
            THEN /\ StepEnd("checkPrerequisites")
                 /\ Backend_main_prerequisites(FALSE)
                 /\ UNCHANGED ioVars
            ELSE IF ~psql /\ ~isCI
            THEN /\ Ask(question(isCI, "Do you have PostgreSQL installed and running? (y/n): "))
                 /\ Goto("b_checkPrerequisites_answer")
                 /\ UNCHANGED finished
            ELSE /\ StepEnd("checkPrerequisites")
                 /\ Backend_main_prerequisites(TRUE)
                 /\ UNCHANGED ioVars
    /\ UNCHANGED <<constVars, childEnded, callVars, replacements, logVars, answers, dbConfig, fsVars, children, errVars>>

\* the PostgreSQL confirmation is answered
Backend_checkPrerequisites_answer ==
    /\ prog = "backend"
    /\ pc = "b_checkPrerequisites_answer"
    /\ \E a \in Lines(YesNoAnswers) :
         /\ Receive(a)
         /\ StepEnd("checkPrerequisites")
         /\ Backend_main_prerequisites(IsAffirmative(a))
    /\ UNCHANGED <<constVars, childEnded, callVars, replacements, logVars, cfgVars, fsVars, procVars, started, errVars>>

\* mutant: the CI branch is missing, an existing directory always asks
existingBackendDecision_noCiBranch(exists, ci) ==
    IF exists THEN "ask" ELSE "proceed"

\* mutant: CI removes the directory without looking whether it exists
existingBackendDecision_ciAlwaysRemoves(exists, ci) ==
    IF ci THEN "remove" ELSE IF exists THEN "ask" ELSE "proceed"

\* what checkExistingBackend does first: return true, remove, or ask
existingBackendDecision(exists, ci) ==
    IF exists THEN (IF ci THEN "remove" ELSE "ask") ELSE "proceed"

\* mutant: every answer that starts with y or Y confirms the removal
removalConfirmed_startsWithY(answer) ==
    answer # <<>> /\ toLowerCaseChar(answer[1]) = "y"

\* whether the answer to the removal confirmation leads to the removal
removalConfirmed(answer) == IsAffirmative(answer)

\* mutant: the directory is left on disk and checkExistingBackend returns
\* true
removeBackend_leavesDirectory(ok) ==
    /\ rmCalls' = rmCalls + 1
    /\ secretCalls' = secretCalls
    /\ UNCHANGED <<targetExists, envFile, errVars>>
    /\ StepEnd("checkExistingBackend")
    /\ Backend_main_existing(TRUE)

\* fs.rmSync(backendPath, { recursive: true, force: true }); return true
\* (ok: the call did not throw)
removeBackend(ok) ==
    /\ rmCalls' = rmCalls + 1
    /\ secretCalls' = secretCalls
    /\ IF ok
       THEN /\ targetExists' = FALSE
            /\ envFile' = NoFile
            /\ StepEnd("checkExistingBackend")
            /\ Backend_main_existing(TRUE)
            /\ UNCHANGED errVars
       ELSE /\ UNCHANGED <<targetExists, envFile, finished>>
            /\ Throw("b_handleError", "checkExistingBackend",
                     <<"EPERM: operation not permitted, rm">>)

Backend_checkExistingBackend ==
    /\ prog = "backend"
    /\ pc = "b_checkExistingBackend"
    /\ StepBegin("checkExistingBackend")
    /\ LET d == existingBackendDecision(targetExists, isCI)
       IN  CASE d = "remove" ->
                  /\ \E ok \in BOOLEAN : removeBackend(ok)
                  /\ UNCHANGED ioVars
             [] d = "ask" ->
                  /\ Ask(question(isCI, "Do you want to remove it and reinstall? (y/n): "))
                  /\ Goto("b_checkExistingBackend_answer")
                  /\ UNCHANGED <<fsVars, finished, errVars>>
             [] OTHER ->
                  /\ StepEnd("checkExistingBackend")
                  /\ Backend_main_existing(TRUE)
                  /\ UNCHANGED <<fsVars, ioVars, errVars>>
    /\ UNCHANGED <<constVars, childEnded, callVars, replacements, logVars, cfgVars, procVars>>

\* the removal confirmation is answered
Backend_checkExistingBackend_answer ==
    /\ prog = "backend"
    /\ pc = "b_checkExistingBackend_answer"
    /\ \E a \in Lines(YesNoAnswers) :
         /\ Receive(a)
         /\ IF removalConfirmed(a)
            THEN \E ok \in BOOLEAN : removeBackend(ok)
            ELSE /\ StepEnd("checkExistingBackend")
                 /\ Backend_main_existing(FALSE)
                 /\ UNCHANGED <<fsVars, errVars>>
    /\ UNCHANGED <<constVars, childEnded, callVars, replacements, logVars, cfgVars, procVars, started>>

\* getDatabaseConfig in CI: environment variables with defaults
ciDatabaseConfig(e) ==
    [ built    |-> TRUE,
      host     |-> OrDefault(e.DB_HOST, <<"localhost">>),
      port     |-> OrDefault(e.DB_PORT, <<"5432">>),
      user     |-> OrDefault(e.DB_USER, <<"postgres">>),
      password |-> OrDefault(e.DB_PASSWORD, <<"postgres">>),
      name     |-> OrDefault(e.DB_NAME, <<"medusa_test">>) ]

\* the prompts of getDatabaseConfig, in the order they are issued
DbFields == <<"host", "port", "user", "password", "name">>

DbQuery ==
    [ host     |-> "Database host [localhost]: ",
      port     |-> "Database port [5432]: ",
      user     |-> "Database user [postgres]: ",
      password |-> "Database password: ",
      name     |-> "Database name [medusa-store]: " ]

\* lines typed at a database prompt
DbLines(field) ==
    CASE field = "host"     -> {<<>>, <<"10.0.0.5">>}
      [] field = "port"     -> {<<>>, <<"5433">>}
      [] field = "user"     -> {<<>>, <<"admin">>}
      [] field = "password" -> PasswordValues
      [] field = "name"     -> {<<>>, <<"store">>}

\* mutant: the answers are used as typed, without defaults
promptedValue_asTyped(field, a) == a

\* (await question(...)) || dflt ; the password has no default
promptedValue(field, a) ==
    CASE field = "host"     -> AnswerOrDefault(a, <<"localhost">>)
      [] field = "port"     -> AnswerOrDefault(a, <<"5432">>)
      [] field = "user"     -> AnswerOrDefault(a, <<"postgres">>)
      [] field = "password" -> a
      [] field = "name"     -> AnswerOrDefault(a, <<"medusa-store">>)

Backend_getDatabaseConfig ==
    /\ prog = "backend"
    /\ pc = "b_getDatabaseConfig"
    /\ StepBegin("getDatabaseConfig")
    /\ IF isCI
       THEN /\ dbConfig' = ciDatabaseConfig(env)
            /\ StepEnd("getDatabaseConfig")
            /\ Goto("b_installMedusa")
            /\ UNCHANGED <<ioVars, answers>>
       ELSE /\ Ask(question(isCI, DbQuery[DbFields[1]]))
            /\ answers' = <<>>
            /\ Goto("b_getDatabaseConfig_answer")
            /\ UNCHANGED <<dbConfig, finished>>
    /\ UNCHANGED <<constVars, childEnded, callVars, replacements, logVars, checks, fsVars, procVars, errVars>>

\* one database prompt is answered: its value is kept, and the object is
\* built after the last one
Backend_getDatabaseConfig_answer ==
    /\ prog = "backend"
    /\ pc = "b_getDatabaseConfig_answer"
    /\ LET field == DbFields[Len(answers) + 1]
       IN  \E a \in Lines(DbLines(field)) :
             LET got == Append(answers, promptedValue(field, a))
             IN  /\ Receive(a)
                 /\ IF Len(got) < Len(DbFields)
                    THEN /\ answers' = got
                         /\ Goto("b_getDatabaseConfig_ask")
                         /\ UNCHANGED <<dbConfig, finished>>
                    ELSE /\ answers' = <<>>
                         /\ dbConfig' = [ built |-> TRUE, host |-> got[1], port |-> got[2],
                                          user |-> got[3], password |-> got[4],
                                          name |-> got[5] ]
                         /\ StepEnd("getDatabaseConfig")
                         /\ Goto("b_installMedusa")
    /\ UNCHANGED <<constVars, childEnded, callVars, replacements, logVars, checks, fsVars, procVars, started, errVars>>

\* the next database prompt is issued
Backend_getDatabaseConfig_ask ==
    /\ prog = "backend"
    /\ pc = "b_getDatabaseConfig_ask"
    /\ Ask(question(isCI, DbQuery[DbFields[Len(answers) + 1]]))
    /\ Goto("b_getDatabaseConfig_answer")
    /\ UNCHANGED <<constVars, childEnded, callVars, replacements, logVars, lastAnswer, cfgVars, fsVars, procVars, histVars, errVars>>

\* the message of the Error an installMedusa promise is rejected with on a
\* non-zero exit code; the promise is returned, not awaited, inside the try
\* block, so the catch block of installMedusa never sees the rejection
installMedusaRejection(code) == <<"Installation failed with code ", ToString(code)>>

\* mutant: installMedusa resolves as soon as the child is spawned
Backend_installMedusa_noWait ==
    /\ prog = "backend"
    /\ pc = "b_installMedusa"
    /\ StepBegin("installMedusa")
    /\ invocations' = Append(invocations, "npx create-medusa-app")
    /\ children' = children \cup {"npx create-medusa-app"}
    /\ StepEnd("installMedusa")
    /\ Goto("b_createEnvFile")
    /\ UNCHANGED <<constVars, childEnded, callVars, replacements, logVars, cfgVars, fsVars, ioVars, errVars>>

\* spawn('npx', ['create-medusa-app@latest', '--skip-db', 'backend'])
Backend_installMedusa ==
    /\ prog = "backend"
    /\ pc = "b_installMedusa"
    /\ StepBegin("installMedusa")
    /\ invocations' = Append(invocations, "npx create-medusa-app")
    /\ \E spawned \in BOOLEAN :
         IF spawned
         THEN /\ children' = children \cup {"npx create-medusa-app"}
              /\ Goto("b_installMedusa_wait")
         ELSE /\ children' = children
              /\ Goto("b_installMedusa_error")
    /\ UNCHANGED <<constVars, childEnded, callVars, replacements, logVars, cfgVars, fsVars, ioVars, finished, errVars>>

\* mutant: a close listener that settles nothing
Backend_installMedusa_close_settlesNothing ==
    /\ prog = "backend"
    /\ pc = "b_installMedusa_wait"
    /\ UNCHANGED vars

\* install.on('close', code => ...)
Backend_installMedusa_close ==
    /\ prog = "backend"
    /\ pc = "b_installMedusa_wait"
    /\ children' = children \ {"npx create-medusa-app"}
    /\ \E code \in {0, 1} :
         IF code = 0
         THEN /\ targetExists' = TRUE
              /\ StepEnd("installMedusa")
              /\ Goto("b_createEnvFile")
              /\ UNCHANGED errVars
         ELSE /\ targetExists' \in BOOLEAN
              /\ Throw("b_handleError", "installMedusa", installMedusaRejection(code))
              /\ UNCHANGED finished
    /\ UNCHANGED <<constVars, childEnded, callVars, replacements, logVars, lastAnswer, cfgVars, envFile, rmCalls, secretCalls, ioVars, invocations,
                   started>>

\* install.on('error', err => reject(err)): the child could not be spawned
Backend_installMedusa_error ==
    /\ prog = "backend"
    /\ pc = "b_installMedusa_error"
    /\ Throw("b_handleError", "installMedusa", <<"spawn npx ENOENT">>)
    /\ UNCHANGED <<constVars, childEnded, callVars, replacements, logVars, lastAnswer, cfgVars, fsVars, ioVars, procVars, histVars>>

\* the text createEnvFile writes: the rendered template, or the minimal
\* variant of createBasicEnvFile when the template is missing
envContent(hasTemplate, cfg, jwt, cookie) ==
    IF hasTemplate
    THEN processTemplate(EnvTemplate, replacementsOf(cfg, jwt, cookie))
    ELSE BasicEnvContent(cfg, jwt, cookie)

\* createEnvFile(dbConfig): the replacements object is built when the
\* template exists; a failing fs call throws its own error
Backend_createEnvFile ==
    /\ prog = "backend"
    /\ pc = "b_createEnvFile"
    /\ StepBegin("createEnvFile")
    /\ secretCalls' = secretsFor(isCI, secretCalls).calls
    /\ replacements' =
           IF templateExists
           THEN [ built   |-> TRUE,
                  entries |-> replacementsOf(dbConfig, secretsFor(isCI, secretCalls).jwt,
                                             secretsFor(isCI, secretCalls).cookie) ]
           ELSE replacements
    /\ \E ok \in BOOLEAN :
         IF ok /\ targetExists
         THEN /\ envFile' = [ exists  |-> TRUE,
                              content |-> envContent(templateExists, dbConfig,
                                                     secretsFor(isCI, secretCalls).jwt,
                                                     secretsFor(isCI, secretCalls).cookie) ]
              /\ StepEnd("createEnvFile")
              /\ Goto("b_runMigrations")
              /\ UNCHANGED errVars
         ELSE /\ Throw("b_handleError", "createEnvFile",
                       <<"ENOENT: no such file or directory, open 'backend/.env'">>)
              /\ UNCHANGED <<envFile, finished>>
    /\ UNCHANGED <<constVars, childEnded, callVars, logVars, cfgVars, targetExists, rmCalls, ioVars, procVars>>

\* throw new Error(`Migration failed: ${error.message}`)
runMigrationsError(command) == <<"Migration failed: ", "Command failed: ", command>>

\* execSync('npm run build'), then execSync('npx medusa migrations run')
Backend_runMigrations ==
    /\ prog = "backend"
    /\ pc = "b_runMigrations"
    /\ StepBegin("runMigrations")
    /\ \E outcome \in {"ok", "build fails", "migrations fail"} :
         /\ invocations' =
                IF outcome = "build fails"
                THEN Append(invocations, "npm run build")
                ELSE invocations \o <<"npm run build", "npx medusa migrations run">>
         /\ IF outcome = "ok"
            THEN /\ StepEnd("runMigrations")
                 /\ Goto("b_createAdminUser")
                 /\ UNCHANGED errVars
            ELSE /\ Throw("b_handleError", "runMigrations",
                          runMigrationsError(IF outcome = "build fails"
                                             THEN "npm run build"
                                             ELSE "npx medusa migrations run"))
                 /\ UNCHANGED finished
    /\ UNCHANGED <<constVars, childEnded, callVars, replacements, logVars, cfgVars, fsVars, ioVars, children>>

\* createAdminUser up to its first prompt
Backend_createAdminUser ==
    /\ prog = "backend"
    /\ pc = "b_createAdminUser"
    /\ StepBegin("createAdminUser")
    /\ IF isCI \/ env.SKIP_USER_PROMPT
       THEN /\ StepEnd("createAdminUser")
            /\ Goto("b_seedDatabase")
            /\ UNCHANGED ioVars
       ELSE /\ Ask(question(isCI, "Would you like to create an admin user now? (y/n): "))
            /\ Goto("b_createAdminUser_answer")
            /\ UNCHANGED finished
    /\ UNCHANGED <<constVars, childEnded, callVars, replacements, logVars, cfgVars, fsVars, procVars, errVars>>

Backend_createAdminUser_answer ==
    /\ prog = "backend"
    /\ pc = "b_createAdminUser_answer"
    /\ \E a \in Lines(YesNoAnswers) :
         /\ Receive(a)
         /\ IF IsAffirmative(a)
            THEN /\ Goto("b_createAdminUser_ask")
                 /\ UNCHANGED finished
            ELSE /\ StepEnd("createAdminUser")
                 /\ Goto("b_seedDatabase")
    /\ answers' = <<>>
    /\ UNCHANGED <<constVars, childEnded, callVars, replacements, logVars, checks, dbConfig, fsVars, procVars, started, errVars>>

\* question('Admin email: '), then question('Admin password: ')
Backend_createAdminUser_ask ==
    /\ prog = "backend"
    /\ pc = "b_createAdminUser_ask"
    /\ Ask(question(isCI, IF answers = <<>> THEN "Admin email: " ELSE "Admin password: "))
    /\ Goto("b_createAdminUser_credential")
    /\ UNCHANGED <<constVars, childEnded, callVars, replacements, logVars, lastAnswer, cfgVars, fsVars, procVars, histVars, errVars>>

\* a failure a step caught is logged as a warning, and the step goes on
logWarning(failed, step) ==
    /\ warnings' = IF failed THEN Append(warnings, step) ELSE warnings
    /\ UNCHANGED <<headers, allGood>>

\* an e-mail or password line arrives; after the password the user is
\* created, and a failing execSync is caught and logged
Backend_createAdminUser_credential ==
    /\ prog = "backend"
    /\ pc = "b_createAdminUser_credential"
    /\ \E a \in Lines({<<>>, <<"typed">>}) :
         /\ Receive(a)
         /\ IF answers = <<>>
            THEN /\ answers' = <<a>>
                 /\ Goto("b_createAdminUser_ask")
                 /\ UNCHANGED <<finished, invocations, logVars>>
            ELSE /\ answers' = <<>>
                 /\ IF answers[1] = <<>> \/ a = <<>>
                    THEN UNCHANGED <<invocations, logVars>>
                    ELSE /\ invocations' = Append(invocations, "npx medusa user")
                         /\ \E ok \in BOOLEAN : logWarning(~ok, "createAdminUser")
                 /\ StepEnd("createAdminUser")
                 /\ Goto("b_seedDatabase")
    /\ UNCHANGED <<constVars, childEnded, callVars, replacements, checks, dbConfig, fsVars, children, started, errVars>>

\* seedDatabase up to its prompt; in CI the seed runs unless it is skipped,
\* and a failing execSync is caught and logged
Backend_seedDatabase ==
    /\ prog = "backend"
    /\ pc = "b_seedDatabase"
    /\ StepBegin("seedDatabase")
    /\ IF isCI /\ env.SKIP_SEED_PROMPT
       THEN /\ StepEnd("seedDatabase")
            /\ Goto("b_copyAdditionalFiles")
            /\ UNCHANGED <<ioVars, invocations, logVars>>
       ELSE IF isCI
       THEN /\ invocations' = Append(invocations, "npm run seed")
            /\ \E ok \in BOOLEAN : logWarning(~ok, "seedDatabase")
            /\ StepEnd("seedDatabase")
            /\ Goto("b_copyAdditionalFiles")
            /\ UNCHANGED ioVars
       ELSE /\ Ask(question(isCI, "Would you like to seed the database with sample data? (y/n): "))
            /\ Goto("b_seedDatabase_answer")
            /\ UNCHANGED <<finished, invocations, logVars>>
    /\ UNCHANGED <<constVars, childEnded, callVars, replacements, cfgVars, fsVars, children, errVars>>

Backend_seedDatabase_answer ==
    /\ prog = "backend"
    /\ pc = "b_seedDatabase_answer"
    /\ \E a \in Lines(YesNoAnswers) :
         /\ Receive(a)
         /\ IF IsAffirmative(a)
            THEN /\ invocations' = Append(invocations, "npm run seed")
                 /\ \E ok \in BOOLEAN : logWarning(~ok, "seedDatabase")
            ELSE UNCHANGED <<invocations, logVars>>
    /\ StepEnd("seedDatabase")
    /\ Goto("b_copyAdditionalFiles")
    /\ UNCHANGED <<constVars, childEnded, callVars, replacements, cfgVars, fsVars, children, started, errVars>>

\* copyAdditionalFiles: a failing fs.copyFileSync throws its own error
Backend_copyAdditionalFiles ==
    /\ prog = "backend"
    /\ pc = "b_copyAdditionalFiles"
    /\ StepBegin("copyAdditionalFiles")
    /\ \E readmeTemplate \in BOOLEAN, ok \in BOOLEAN :
         IF isCI \/ ~readmeTemplate \/ ok
         THEN /\ StepEnd("copyAdditionalFiles")
              /\ Goto("b_printNextSteps")
              /\ UNCHANGED errVars
         ELSE /\ Throw("b_handleError", "copyAdditionalFiles",
                       <<"ENOENT: no such file or directory, copyfile">>)
              /\ UNCHANGED finished
    /\ UNCHANGED <<constVars, childEnded, callVars, replacements, logVars, cfgVars, fsVars, ioVars, procVars>>

\* printNextSteps; main returns and the process ends with code 0
Backend_printNextSteps ==
    /\ prog = "backend"
    /\ pc = "b_printNextSteps"
    /\ StepBegin("printNextSteps")
    /\ StepEnd("printNextSteps")
    /\ Exit(0)
    /\ UNCHANGED <<constVars, childEnded, callVars, replacements, logVars, cfgVars, fsVars, ioVars, procVars, errVars>>

\* mutant: handleError ends the process without a failure code
Backend_handleError_exit0 ==
    /\ prog = "backend"
    /\ pc = "b_handleError"
    /\ Exit(0)
    /\ UNCHANGED <<constVars, childEnded, callVars, replacements, logVars, lastAnswer, cfgVars, fsVars, ioVars, procVars, histVars,
                   errVars>>

\* mutant: handleError undoes the installation before it exits
Backend_handleError_rollback ==
    /\ prog = "backend"
    /\ pc = "b_handleError"
    /\ Exit(1)
    /\ targetExists' = FALSE
    /\ envFile' = NoFile
    /\ UNCHANGED <<constVars, childEnded, callVars, replacements, logVars, lastAnswer, cfgVars, rmCalls, secretCalls, ioVars,
                   procVars, histVars, errVars>>

\* catch (error) { handleError(error) }: log, then process.exit(1)
Backend_handleError ==
    /\ prog = "backend"
    /\ pc = "b_handleError"
    /\ Exit(1)
    /\ UNCHANGED <<constVars, childEnded, callVars, replacements, logVars, lastAnswer, cfgVars, fsVars, ioVars, procVars, histVars, errVars>>

Backend_main ==
    \/ Backend_checkPrerequisites
    \/ Backend_checkPrerequisites_answer
    \/ Backend_checkExistingBackend
    \/ Backend_checkExistingBackend_answer
    \/ Backend_getDatabaseConfig
    \/ Backend_getDatabaseConfig_answer
    \/ Backend_getDatabaseConfig_ask
    \/ Backend_installMedusa
    \/ Backend_installMedusa_close
    \/ Backend_installMedusa_error
    \/ Backend_createEnvFile
    \/ Backend_runMigrations
    \/ Backend_createAdminUser
    \/ Backend_createAdminUser_answer
    \/ Backend_createAdminUser_ask
    \/ Backend_createAdminUser_credential
    \/ Backend_seedDatabase
    \/ Backend_seedDatabase_answer
    \/ Backend_copyAdditionalFiles
    \/ Backend_printNextSteps
    \/ Backend_handleError

(***************************************************************************)
(* install.js                                                              *)
(***************************************************************************)
MasterSteps ==
    << "checkPrerequisites", "installRootDependencies", "installStorefront",
       "installBackend", "verifyWorkspaces", "printFinalInstructions" >>

\* mutant: a header that counts from zero
logStep_fromZero(step, total) ==
    headers' = Append(headers, [step |-> step - 1, total |-> total])

\* logStep(step, total, message): prints `[${step}/${total}] ${message}`
logStep(step, total) ==
    headers' = Append(headers, [step |-> step, total |-> total])

\* main: if (!prerequisitesOk) process.exit(1)
Master_main_prerequisites(prerequisitesOk) ==
    IF prerequisitesOk THEN Goto("m_confirm") ELSE Exit(1)

\* the commands checkPrerequisites runs: commandExists for the four tools,
\* then getVersion for each tool found
versionCommands(c) ==
    <<"node --version", "npm --version", "psql --version", "git --version">>
        \o (IF c.node THEN <<"node --version">> ELSE <<>>)
        \o (IF c.npm THEN <<"npm --version">> ELSE <<>>)
        \o (IF c.postgres THEN <<"psql --version">> ELSE <<>>)
        \o (IF c.git THEN <<"git --version">> ELSE <<>>)

\* checkPrerequisites up to its first suspension point
Master_checkPrerequisites ==
    /\ prog = "master"
    /\ pc = "m_checkPrerequisites"
    /\ StepBegin("checkPrerequisites")
    /\ logStep(1, 5)
    /\ \E node \in commandExistsResults, npm \in commandExistsResults,
          psql \in commandExistsResults, git \in commandExistsResults,
          major \in {nodeMajor} :
         LET c == [done |-> TRUE, node |-> node, npm |-> npm, postgres |-> psql,
                   git |-> git, majorVersion |-> major]
         IN  /\ checks' = c
             /\ invocations' = invocations \o versionCommands(c)
             /\ IF ~node \/ ~npm
                THEN /\ StepEnd("checkPrerequisites")
                     /\ Master_main_prerequisites(FALSE)
                     /\ UNCHANGED ioVars
                ELSE IF major < MinNodeMajor
                THEN /\ StepEnd("checkPrerequisites")
                     /\ Master_main_prerequisites(FALSE)
                     /\ UNCHANGED ioVars
                ELSE IF ~psql /\ ~isCI
                THEN /\ Ask(question(isCI, "Do you have PostgreSQL installed and running? (y/n): "))
                     /\ Goto("m_checkPrerequisites_answer")
                     /\ UNCHANGED finished
                ELSE /\ StepEnd("checkPrerequisites")
                     /\ Master_main_prerequisites(TRUE)
                     /\ UNCHANGED ioVars
    /\ UNCHANGED <<constVars, childEnded, callVars, replacements, allGood, warnings, answers, dbConfig, fsVars, children, errVars>>

\* the PostgreSQL confirmation is answered
Master_checkPrerequisites_answer ==
    /\ prog = "master"
    /\ pc = "m_checkPrerequisites_answer"
    /\ \E a \in Lines(YesNoAnswers) :
         /\ Receive(a)
         /\ StepEnd("checkPrerequisites")
         /\ Master_main_prerequisites(IsAffirmative(a))
    /\ UNCHANGED <<constVars, childEnded, callVars, replacements, logVars, cfgVars, fsVars, procVars, started, errVars>>

\* main: if (!isCI) await question('Press Enter to start installation ...')
Master_main_confirm ==
    /\ prog = "master"
    /\ pc = "m_confirm"
    /\ IF isCI
       THEN /\ Goto("m_installRootDependencies")
            /\ UNCHANGED ioVars
       ELSE /\ Ask(question(isCI, "Press Enter to start installation or Ctrl+C to cancel..."))
            /\ Goto("m_confirm_answer")
    /\ UNCHANGED <<constVars, childEnded, callVars, replacements, logVars, lastAnswer, cfgVars, fsVars, procVars, histVars, errVars>>

Master_main_confirm_answer ==
    /\ prog = "master"
    /\ pc = "m_confirm_answer"
    /\ \E a \in Lines({<<>>, <<"n">>}) : Receive(a)
    /\ Goto("m_installRootDependencies")
    /\ UNCHANGED <<constVars, childEnded, callVars, replacements, logVars, cfgVars, fsVars, procVars, histVars, errVars>>

\* execSync('npm install', { cwd: rootPath }); a failure is rethrown as
\* `Failed to install root dependencies: ${error.message}`
Master_installRootDependencies ==
    /\ prog = "master"
    /\ pc = "m_installRootDependencies"
    /\ StepBegin("installRootDependencies")
    /\ logStep(2, 5)
    /\ invocations' = Append(invocations, "npm install (root)")
    /\ \E ok \in BOOLEAN :
         IF ok
         THEN /\ StepEnd("installRootDependencies")
              /\ Goto("m_installStorefront")
              /\ UNCHANGED errVars
         ELSE /\ Throw("m_handleError", "installRootDependencies",
                       <<"Failed to install root dependencies: ", "Command failed: npm install">>)
              /\ UNCHANGED finished
    /\ UNCHANGED <<constVars, childEnded, callVars, replacements, allGood, warnings, cfgVars, fsVars, ioVars, children>>

\* installStorefront: a missing directory throws 'Storefront directory
\* missing'; a failing npm install is rethrown as
\* `Failed to install storefront: ${error.message}`
Master_installStorefront ==
    /\ prog = "master"
    /\ pc = "m_installStorefront"
    /\ StepBegin("installStorefront")
    /\ logStep(3, 5)
    /\ \E outcome \in {"ok", "directory missing", "npm fails"} :
         /\ invocations' = IF outcome = "directory missing"
                           THEN invocations
                           ELSE Append(invocations, "npm install (storefront)")
         /\ IF outcome = "ok"
            THEN /\ StepEnd("installStorefront")
                 /\ Goto("m_installBackend")
                 /\ UNCHANGED errVars
            ELSE /\ Throw("m_handleError", "installStorefront",
                          IF outcome = "directory missing"
                          THEN <<"Storefront directory missing">>
                          ELSE <<"Failed to install storefront: ",
                                 "Command failed: npm install">>)
                 /\ UNCHANGED finished
    /\ UNCHANGED <<constVars, childEnded, callVars, replacements, allGood, warnings, cfgVars, fsVars, ioVars, children>>

\* throw new Error(`Failed to install backend: ${error.message}`): the
\* promise is awaited inside the try block, so every rejection is rethrown
installBackendError(message) == <<"Failed to install backend: ">> \o message

\* spawn('node', ['scripts/install-backend.js'])
Master_installBackend ==
    /\ prog = "master"
    /\ pc = "m_installBackend"
    /\ StepBegin("installBackend")
    /\ logStep(4, 5)
    /\ invocations' = Append(invocations, "node scripts/install-backend.js")
    /\ \E spawned \in BOOLEAN :
         IF spawned
         THEN /\ children' = children \cup {"node scripts/install-backend.js"}
              /\ Goto("m_installBackend_wait")
         ELSE /\ children' = children
              /\ Goto("m_installBackend_error")
    /\ UNCHANGED <<constVars, childEnded, callVars, replacements, allGood, warnings, cfgVars, fsVars, ioVars, finished, errVars>>

\* the ways a run of install-backend.js ends, as its parent sees them: its
\* exit code and what it left on disk. It ends with code 0 after its last
\* step ("completed") and, in interactive mode with the directory present,
\* after a declined removal ("cancelled": main calls process.exit(0) before
\* any installation step); it ends with code 1 on a failure.
ChildOutcomes(ci, exists) ==
    {[code |-> 0, target |-> TRUE, envWritten |-> TRUE, ended |-> "completed"]}
        \cup {[code |-> 1, target |-> t, envWritten |-> w, ended |-> "failed"] :
                 t \in BOOLEAN, w \in BOOLEAN}
        \cup (IF ~ci /\ exists
              THEN {[code |-> 0, target |-> TRUE, envWritten |-> FALSE, ended |-> "cancelled"]}
              ELSE {})

\* install.on('close', code => ...)
Master_installBackend_close ==
    /\ prog = "master"
    /\ pc = "m_installBackend_wait"
    /\ children' = children \ {"node scripts/install-backend.js"}
    /\ \E o \in ChildOutcomes(isCI, targetExists) :
         /\ childEnded' = o.ended
         /\ targetExists' = o.target
         /\ envFile' = IF o.envWritten /\ o.target
                       THEN [exists |-> TRUE, content |-> <<>>]
                       ELSE IF o.target THEN envFile ELSE NoFile
         /\ IF o.code = 0
            THEN /\ StepEnd("installBackend")
                 /\ Goto("m_verifyWorkspaces")
                 /\ UNCHANGED errVars
            ELSE /\ Throw("m_handleError", "installBackend",
                          installBackendError(<<"Backend installation failed with code ",
                                                ToString(o.code)>>))
                 /\ UNCHANGED finished
    /\ UNCHANGED <<constVars, callVars, replacements, logVars, lastAnswer, cfgVars, rmCalls, secretCalls, ioVars,
                   invocations, started>>

\* install.on('error', err => reject(err)): the child could not be spawned
Master_installBackend_error ==
    /\ prog = "master"
    /\ pc = "m_installBackend_error"
    /\ Throw("m_handleError", "installBackend", installBackendError(<<"spawn node ENOENT">>))
    /\ UNCHANGED <<constVars, childEnded, callVars, replacements, logVars, lastAnswer, cfgVars, fsVars, ioVars, procVars, histVars>>

\* verifyWorkspaces: Object.values(checks).every(Boolean); main ignores the
\* returned value
Master_verifyWorkspaces ==
    /\ prog = "master"
    /\ pc = "m_verifyWorkspaces"
    /\ StepBegin("verifyWorkspaces")
    /\ logStep(5, 5)
    /\ \E storefrontNodeModules \in BOOLEAN,
          backendNodeModules \in (IF targetExists THEN BOOLEAN ELSE {FALSE}) :
         allGood' = IF /\ targetExists
                       /\ storefrontNodeModules
                       /\ backendNodeModules
                       /\ envFile.exists
                    THEN "yes" ELSE "no"
    /\ StepEnd("verifyWorkspaces")
    /\ Goto("m_printFinalInstructions")
    /\ UNCHANGED <<constVars, childEnded, callVars, replacements, warnings, cfgVars, fsVars, ioVars, procVars, errVars>>

\* printFinalInstructions; main returns and the process ends with code 0
Master_printFinalInstructions ==
    /\ prog = "master"
    /\ pc = "m_printFinalInstructions"
    /\ StepBegin("printFinalInstructions")
    /\ StepEnd("printFinalInstructions")
    /\ Exit(0)
    /\ UNCHANGED <<constVars, childEnded, callVars, replacements, logVars, cfgVars, fsVars, ioVars, procVars, errVars>>

\* catch (error) { handleError(error) }: log, then process.exit(1)
Master_handleError ==
    /\ prog = "master"
    /\ pc = "m_handleError"
    /\ Exit(1)
    /\ UNCHANGED <<constVars, childEnded, callVars, replacements, logVars, lastAnswer, cfgVars, fsVars, ioVars, procVars, histVars,
                   errVars>>

Master_main ==
    \/ Master_checkPrerequisites
    \/ Master_checkPrerequisites_answer
    \/ Master_main_confirm
    \/ Master_main_confirm_answer
    \/ Master_installRootDependencies
    \/ Master_installStorefront
    \/ Master_installBackend
    \/ Master_installBackend_close
    \/ Master_installBackend_error
    \/ Master_verifyWorkspaces
    \/ Master_printFinalInstructions
    \/ Master_handleError

(***************************************************************************)
(* check-prerequisites.js                                                  *)
(***************************************************************************)
\* main: the four checkCommand calls, the summary, and the return; the
\* script never calls process.exit, so the process ends with code 0
Check_main ==
    /\ prog = "check"
    /\ pc = "c_main"
    /\ \E node \in checkCommandResults, npm \in checkCommandResults,
          psql \in checkCommandResults, git \in checkCommandResults :
         checks' = [done |-> TRUE, node |-> node, npm |-> npm, postgres |-> psql,
                    git |-> git]
    /\ invocations' = invocations
           \o <<"node --version", "npm --version", "psql --version", "git --version">>
    /\ Exit(0)
    /\ UNCHANGED <<constVars, childEnded, callVars, replacements, logVars, lastAnswer, answers, dbConfig, fsVars, ioVars, children,
                   histVars, errVars>>

(***************************************************************************)
(* the platform-aware prerequisite checker                                 *)
(***************************************************************************)
\* what `sc query postgresql*` may give: the call throws, or its output
\* does or does not hold the words RUNNING and postgresql
ScResults == [throws : BOOLEAN, running : BOOLEAN, named : BOOLEAN]

\* checkPostgres: the service query and the directory probe on Windows,
\* then `psql --version`
\* checkPostgres with a service query whose exception leaves the function
checkPostgres_scThrowAborts(isWindows, sc, pathExists, psqlOk) ==
    IF isWindows /\ sc.throws
    THEN [installed |-> FALSE, via |-> "none", tried |-> <<"service">>,
          commands |-> <<"sc query postgresql*">>]
    ELSE IF isWindows /\ (sc.running \/ sc.named)
    THEN [installed |-> TRUE, via |-> "service", tried |-> <<"service">>,
          commands |-> <<"sc query postgresql*">>]
    ELSE IF isWindows /\ pathExists
    THEN [installed |-> TRUE, via |-> "directory", tried |-> <<"service", "directory">>,
          commands |-> <<"sc query postgresql*">>]
    ELSE [installed |-> psqlOk,
          via       |-> IF psqlOk THEN "psql" ELSE "none",
          tried     |-> (IF isWindows THEN <<"service", "directory">> ELSE <<>>)
                            \o <<"psql">>,
          commands  |-> (IF isWindows THEN <<"sc query postgresql*">> ELSE <<>>)
                            \o <<"psql --version">>]
checkPostgres(isWindows, sc, pathExists, psqlOk) ==
    IF isWindows /\ ~sc.throws /\ (sc.running \/ sc.named)
    THEN [installed |-> TRUE, via |-> "service", tried |-> <<"service">>,
          commands |-> <<"sc query postgresql*">>]
    ELSE IF isWindows /\ pathExists
    THEN [installed |-> TRUE, via |-> "directory", tried |-> <<"service", "directory">>,
          commands |-> <<"sc query postgresql*">>]
    ELSE [installed |-> psqlOk,
          via       |-> IF psqlOk THEN "psql" ELSE "none",
          tried     |-> (IF isWindows THEN <<"service", "directory">> ELSE <<>>)
                            \o <<"psql">>,
          commands  |-> (IF isWindows THEN <<"sc query postgresql*">> ELSE <<>>)
                            \o <<"psql --version">>]

\* the exit code main ends the process with
platformExitCode(c) ==
    LET criticalChecks == c.node /\ c.npm
        optionalChecks == c.postgres /\ c.git
    IN  IF criticalChecks /\ optionalChecks THEN 0
        ELSE IF criticalChecks THEN 0
        ELSE 1

PlatformCheck_main ==
    /\ prog = "checkpf"
    /\ pc = "p_main"
    /\ \E node \in checkCommandResults, npm \in checkCommandResults,
          git \in checkCommandResults, isWindows \in BOOLEAN,
          sc \in ScResults, pathExists \in BOOLEAN, psqlOk \in BOOLEAN :
         LET pg == checkPostgres(isWindows, sc, pathExists, psqlOk)
             c  == [done |-> TRUE, node |-> node, npm |-> npm,
                    postgres |-> pg.installed, git |-> git,
                    isWindows |-> isWindows, sc |-> sc, pathExists |-> pathExists,
                    psqlOk |-> psqlOk, via |-> pg.via, tried |-> pg.tried]
         IN  /\ checks' = c
             /\ invocations' = invocations \o <<"node --version", "npm --version">>
                                   \o pg.commands \o <<"git --version">>
             /\ Exit(platformExitCode(c))
    /\ UNCHANGED <<constVars, childEnded, callVars, replacements, logVars, lastAnswer, answers, dbConfig, fsVars, ioVars, children,
                   histVars, errVars>>

Next == Backend_main \/ Master_main \/ Check_main \/ PlatformCheck_main

Spec == Init /\ [][Next]_vars

\* every step of a script that can be taken is taken in the end: main runs
\* on when it is not suspended, a pending read gets its line, and every
\* child process ends
SpecLive == Init /\ [][Next]_vars /\ WF_vars(Next)

(***************************************************************************)
(* The process-level handlers of both installers:                          *)
(* process.on('unhandledRejection', ...) and                               *)
(* process.on('uncaughtException', ...)                                    *)
(***************************************************************************)
\* the two events the installers listen to
ProcessEvents == {"unhandledRejection", "uncaughtException"}

\* messages of the Error objects such an event carries
EventErrors == {<<"read EIO">>, <<"write EPIPE">>}

\* main is suspended on an await and the event loop runs: an answer or the
\* end of a child process is awaited (handleError runs to process.exit
\* without returning to the event loop)
OnEventLoop ==
    /\ pc \notin {"b_handleError", "m_handleError", "exited"}
    /\ pendingPrompt # NoPrompt \/ children # {}

\* mutant: a listener that only logs the error
processOn_logsOnly(event, handler) ==
    /\ OnEventLoop
    /\ \E msg \in EventErrors :
         /\ failedStep' = event
         /\ errorMsg' = msg
         /\ pc' = pc
         /\ exitCode' = exitCode
    /\ UNCHANGED <<constVars, childEnded, callVars, replacements, logVars, lastAnswer, cfgVars, fsVars, ioVars, procVars, histVars>>

\* process.on(event, (error) => { handleError(error); }): the listener
\* hands the error to the handleError the catch of main calls; failedStep
\* then names the event instead of a step
processOn(event, handler) ==
    /\ OnEventLoop
    /\ \E msg \in EventErrors : Throw(handler, event, msg)
    /\ UNCHANGED <<constVars, childEnded, callVars, replacements, logVars, lastAnswer, cfgVars, fsVars, ioVars, procVars, histVars>>

Backend_unhandledRejection ==
    /\ prog = "backend"
    /\ processOn("unhandledRejection", "b_handleError")

Backend_uncaughtException ==
    /\ prog = "backend"
    /\ processOn("uncaughtException", "b_handleError")

Master_unhandledRejection ==
    /\ prog = "master"
    /\ processOn("unhandledRejection", "m_handleError")

Master_uncaughtException ==
    /\ prog = "master"
    /\ processOn("uncaughtException", "m_handleError")

NextEvents ==
    \/ Next
    \/ Backend_unhandledRejection
    \/ Backend_uncaughtException
    \/ Master_unhandledRejection
    \/ Master_uncaughtException

SpecEvents == Init /\ [][NextEvents]_vars

(***************************************************************************)
(* question() called on its own, with any query, in either mode            *)
(***************************************************************************)
Queries == {"Database host [localhost]: ", "Admin email: "}

Question_call ==
    /\ prog = "question"
    /\ pc = "q_call"
    /\ \E query \in Queries : Ask(question(isCI, query))
    /\ Goto("q_await")
    /\ UNCHANGED <<constVars, childEnded, callVars, replacements, logVars, lastAnswer, cfgVars, fsVars, procVars, histVars, errVars>>

Question_resolve ==
    /\ prog = "question"
    /\ pc = "q_await"
    /\ \E a \in Lines(YesNoAnswers) : Receive(a)
    /\ Goto("q_resolved")
    /\ UNCHANGED <<constVars, childEnded, callVars, replacements, logVars, cfgVars, fsVars, procVars, histVars, errVars>>

InitQuestion == InitOf(Programs \cup {"question"})

NextQuestion == Next \/ Question_call \/ Question_resolve

SpecQuestion == InitQuestion /\ [][NextQuestion]_vars

(***************************************************************************)
(* The helper functions called on their own, with any arguments            *)
(***************************************************************************)
\* a helper is about to be called
Calling == prog = "functions" /\ pc = "f_call"

\* the caller of a helper gets its result back
Returned(args, result) ==
    /\ callArgs' = args
    /\ callResult' = result
    /\ Goto("f_returned")
    /\ UNCHANGED <<constVars, childEnded, replacements, logVars, lastAnswer, cfgVars, fsVars, ioVars, procVars, histVars,
                   errVars>>

\* commandExists(tool) or checkCommand(tool, name), whatever the outcome of
\* the version command
CommandExists_call ==
    /\ Calling
    /\ \E tool \in Tools, outcome \in ExecOutcomes :
         \/ Returned([fn |-> "commandExists", tool |-> tool, outcome |-> outcome],
                     commandExists(outcome))
         \/ Returned([fn |-> "checkCommand", tool |-> tool, outcome |-> outcome],
                     checkCommand(outcome))

\* placeholder keys: A and B may be keys of the replacements, C never is
KeyA == <<"A">>
KeyB == <<"B">>
KeyC == <<"C">>
Keys == {KeyA, KeyB, KeyC}

TemplatePieces == {TokenOf(k) : k \in Keys} \cup {<<"t">>}

RECURSIVE Joined(_)
Joined(pieces) == IF pieces = <<>> THEN <<>> ELSE Head(pieces) \o Joined(Tail(pieces))

\* the contents of the template file
Templates == UNION {{Joined(ps) : ps \in [1..n -> TemplatePieces]} : n \in 0..MaxPieces}

\* replacement values: empty, plain, each $-pattern of a replacement
\* string, and values that hold a placeholder themselves
TemplateValues ==
    { <<>>, <<"v">>, <<"$", "$">>, <<"$", "&">>, <<"v", "$", "&">>,
      <<"$", Backquote>>, <<"$", Apostrophe>>,
      TokenOf(KeyA), TokenOf(KeyB), TokenOf(KeyA) \o <<"x">> }

\* the replacements objects, as Object.entries lists them: unique keys, in
\* either insertion order
ReplacementMaps ==
    {<<>>}
        \cup {<< <<k, v>> >> : k \in {KeyA, KeyB}, v \in TemplateValues}
        \cup {<< <<KeyA, v>>, <<KeyB, w>> >> : v \in TemplateValues, w \in TemplateValues}
        \cup {<< <<KeyB, w>>, <<KeyA, v>> >> : v \in TemplateValues, w \in TemplateValues}

\* processTemplate(templatePath, replacements) on a template file that
\* holds template
ProcessTemplate_call ==
    /\ Calling
    /\ \E template \in Templates, map \in ReplacementMaps :
         Returned([fn |-> "processTemplate", template |-> template,
                   replacements |-> map],
                  [content |-> processTemplate(template, map), renders |-> 1])

\* the output is written to a file and handed to processTemplate again,
\* with the same replacements
ProcessTemplate_again ==
    /\ prog = "functions"
    /\ pc = "f_returned"
    /\ callArgs.fn = "processTemplate"
    /\ callResult.renders = 1
    /\ callResult' = [ content |-> callResult.content,
                       again   |-> processTemplate(callResult.content,
                                                   callArgs.replacements),
                       renders |-> 2 ]
    /\ Goto("f_returned")
    /\ UNCHANGED <<constVars, childEnded, callArgs, replacements, logVars, lastAnswer, cfgVars, fsVars, ioVars, procVars,
                   histVars, errVars>>

\* generateSecret(length)
GenerateSecret_call ==
    /\ Calling
    /\ \E length \in 0..MaxSecretBytes :
         \E bytes \in randomBytes(length) :
            Returned([fn |-> "generateSecret", length |-> length, bytes |-> bytes],
                     [secret |-> generateSecretOf(bytes)])

InitFunctions == InitOf({"functions"})

NextFunctions ==
    \/ CommandExists_call
    \/ ProcessTemplate_call
    \/ ProcessTemplate_again
    \/ GenerateSecret_call

SpecFunctions == InitFunctions /\ [][NextFunctions]_vars

(***************************************************************************)
(* Vocabulary of the properties                                            *)
(***************************************************************************)
Installer == prog \in {"backend", "master"}

StepsOf(p) == IF p = "backend" THEN BackendSteps ELSE MasterSteps

IsPrefix(s, t) == Len(s) <= Len(t) /\ SubSeq(t, 1, Len(s)) = s

\* the commands that install or build something (the version checks and the
\* service query do not)
InstallerCommands ==
    { "npx create-medusa-app", "npm run build", "npx medusa migrations run",
      "npx medusa user", "npm run seed", "npm install (root)",
      "npm install (storefront)", "node scripts/install-backend.js" }

InstallerInvoked == \E i \in 1..Len(invocations) : invocations[i] \in InstallerCommands

Failed == failedStep # NoStep

RemovalQuery == "Do you want to remove it and reinstall? (y/n): "

Asked(query) == \E i \in 1..Len(prompts) : prompts[i] = query

(***************************************************************************)
(* C1                                                                      *)
(***************************************************************************)
\* C1: in both installers, once the action of a step has failed, that step
\* stays the last one started, the only thing the run still does is end
\* with exit code 1, and the ended run stays ended with that code.
C1_HaltOnFirstFailure ==
    /\ [](Installer /\ Failed =>
            /\ started # <<>>
            /\ started[Len(started)] = failedStep
            /\ pc \in {"b_handleError", "m_handleError", "exited"}
            /\ (pc = "exited" => exitCode = 1))
    /\ [][Installer /\ Failed =>
            /\ started' = started
            /\ pc' = "exited"
            /\ exitCode' = 1]_vars
    /\ [][pc = "exited" => pc' = "exited" /\ exitCode' = exitCode]_vars

\* a step in the middle of the backend pipeline failed and the run ended
C1_Witness ==
    /\ prog = "backend"
    /\ failedStep = "runMigrations"
    /\ pc = "exited"
    /\ exitCode = 1

(***************************************************************************)
(* C2                                                                      *)
(***************************************************************************)
\* the text the catch block of a step prepends to the message of a failure
\* ("" for a step that has no such block)
stepWrapper(step) ==
    CASE step = "installMedusa" -> "Failed to install Medusa: "
      [] step = "runMigrations" -> "Migration failed: "
      [] OTHER                  -> ""

\* C2: when installMedusa, createEnvFile or runMigrations is the step that
\* fails, the message handed to handleError starts with that step's own
\* wrapper text.
C2_ErrorCarriesStepLabel ==
    (prog = "backend" /\ failedStep \in {"installMedusa", "createEnvFile", "runMigrations"})
        => /\ stepWrapper(failedStep) # ""
           /\ Head(errorMsg) = stepWrapper(failedStep)

(***************************************************************************)
(* C3                                                                      *)
(***************************************************************************)
\* C3: in both installers the steps started are a prefix of the declared
\* order, at most one step is unfinished and at most one child process is
\* alive, a child is alive only inside the unfinished step, and a step
\* starts only when every earlier step has returned, no child is alive and
\* nothing has failed.
C3_StrictlySequential ==
    /\ [](Installer =>
            /\ IsPrefix(started, StepsOf(prog))
            /\ IsPrefix(finished, started)
            /\ Len(started) - Len(finished) <= 1
            /\ Cardinality(children) <= 1
            /\ (children # {} => Len(started) = Len(finished) + 1))
    /\ [][Installer /\ started' # started =>
            /\ finished = started
            /\ children = {}
            /\ ~Failed]_vars

\* the step after one that waited for a spawned child has started
C3_Witness ==
    /\ prog = "backend"
    /\ Len(started) = 5
    /\ started[5] = "createEnvFile"
    /\ children = {}

(***************************************************************************)
(* C4                                                                      *)
(***************************************************************************)
\* C4: in both installers and both modes, once node or npm has been found
\* absent the process has ended with exit code 1 and no installer or build
\* command has been invoked.
C4_RequiredToolAbsentExits1 ==
    (Installer /\ checks.done /\ (~checks.node \/ ~checks.npm))
        => /\ pc = "exited"
           /\ exitCode = 1
           /\ ~InstallerInvoked
           /\ children = {}

\* npm was found absent in an interactive run of the master installer
C4_Witness ==
    /\ prog = "master"
    /\ ~isCI
    /\ checks.done
    /\ checks.node
    /\ ~checks.npm
    /\ exitCode = 1

(***************************************************************************)
(* C5                                                                      *)
(***************************************************************************)
\* the affirmative lines: y and yes in every mix of cases
AffirmativeLines ==
    {<<y>> : y \in {"y", "Y"}}
        \cup {<<y, e, z>> : y \in {"y", "Y"}, e \in {"e", "E"}, z \in {"s", "S"}}

\* the removal confirmation of checkExistingBackend, the last step started,
\* has been answered (lastAnswer is the answer)
RemovalAnswered ==
    /\ prog = "backend"
    /\ ~isCI
    /\ Len(started) = 2
    /\ Asked(RemovalQuery)
    /\ pendingPrompt = NoPrompt

\* C5: in interactive mode, once the removal confirmation has been answered
\* with a line that is not y or yes (in any case), checkExistingBackend has
\* returned, the process has ended with exit code 0, the directory is
\* still there, rmSync was never called, and nothing of the later steps
\* (database prompts, installer commands, .env) has happened.
C5_DeclinedRemovalCancels ==
    (RemovalAnswered /\ lastAnswer \notin AffirmativeLines)
        => /\ finished = started
           /\ pc = "exited"
           /\ exitCode = 0
           /\ targetExists
           /\ rmCalls = 0
           /\ dbConfig = NoConfig
           /\ ~InstallerInvoked
           /\ envFile = NoFile
           /\ ~Failed

\* the user typed n
C5_Witness ==
    /\ RemovalAnswered
    /\ lastAnswer = <<"n">>
    /\ exitCode = 0

(***************************************************************************)
(* C6                                                                      *)
(***************************************************************************)
\* C6: in automated mode, checkExistingBackend entered with the directory
\* present calls rmSync and issues no prompt; unless rmSync throws it
\* returns true (main goes on to getDatabaseConfig) and the directory is
\* gone.
C6_AutomatedRemoval ==
    [][(prog = "backend" /\ isCI /\ pc = "b_checkExistingBackend" /\ targetExists) =>
          /\ rmCalls' = rmCalls + 1
          /\ prompts' = prompts
          /\ rlOpen' = 0
          /\ pendingPrompt' = NoPrompt
          /\ \/ /\ pc' = "b_getDatabaseConfig"
                /\ ~targetExists'
                /\ finished' = Append(finished, "checkExistingBackend")
                /\ exitCode' = NoExit
             \/ /\ pc' = "b_handleError"
                /\ failedStep' = "checkExistingBackend"]_vars

\* an automated run removed the directory and went on
C6_Witness ==
    /\ prog = "backend"
    /\ isCI
    /\ rmCalls = 1
    /\ ~targetExists
    /\ pc = "b_getDatabaseConfig"

(***************************************************************************)
(* C7                                                                      *)
(***************************************************************************)
\* C7: in both modes, checkExistingBackend entered with the directory
\* absent returns true (main goes on to getDatabaseConfig) and changes
\* neither the file system nor the prompt state: no rmSync, no prompt.
C7_AbsentTargetProceeds ==
    [][(prog = "backend" /\ pc = "b_checkExistingBackend" /\ ~targetExists) =>
          /\ pc' = "b_getDatabaseConfig"
          /\ exitCode' = NoExit
          /\ finished' = Append(finished, "checkExistingBackend")
          /\ UNCHANGED <<targetExists, envFile, rmCalls>>
          /\ UNCHANGED <<rlOpen, pendingPrompt, prompts>>]_vars

\* an interactive run found no directory and went on without a prompt
C7_Witness ==
    /\ prog = "backend"
    /\ ~isCI
    /\ pc = "b_getDatabaseConfig"
    /\ ~targetExists
    /\ rmCalls = 0
    /\ ~Asked(RemovalQuery)

(***************************************************************************)
(* C8                                                                      *)
(***************************************************************************)
\* C8: in automated mode no readline interface is ever open, no read is
\* pending and no prompt has been issued, in the installers and in a direct
\* call of question() with any query; the direct call resolves with ''.
C8_NoReadInAutomatedMode ==
    isCI => /\ rlOpen = 0
            /\ pendingPrompt = NoPrompt
            /\ prompts = <<>>
            /\ (prog = "question" /\ pc = "q_resolved" => lastAnswer = <<>>)

\* question() was called in automated mode and has resolved
C8_Witness ==
    /\ prog = "question"
    /\ isCI
    /\ pc = "q_resolved"
    /\ lastAnswer = <<>>

(***************************************************************************)
(* C9                                                                      *)
(***************************************************************************)
\* the value the environment supplies for a variable, the default of
\* getDatabaseConfig when it supplies none
Supplied(v, dflt) == IF v.set /\ v.val # <<>> THEN v.val ELSE dflt

SuppliedConfig(e) ==
    [ host     |-> Supplied(e.DB_HOST, <<"localhost">>),
      port     |-> Supplied(e.DB_PORT, <<"5432">>),
      user     |-> Supplied(e.DB_USER, <<"postgres">>),
      password |-> Supplied(e.DB_PASSWORD, <<"postgres">>),
      name     |-> Supplied(e.DB_NAME, <<"medusa_test">>) ]

\* C9: an automated run of install-backend.js ends with exit code 1 only
\* if a required tool is missing or a step failed, and when it has ended
\* with exit code 0 the .env file holds the connection string built from
\* the environment-supplied host, port, user, password and name, and the
\* two sentinel secrets.
C9_AutomatedRunWritesEnv ==
    (prog = "backend" /\ isCI /\ pc = "exited")
        => /\ exitCode = 1 => (Failed \/ ~checks.node \/ ~checks.npm)
           /\ exitCode = 0 =>
                 /\ envFile.exists
                 /\ Contains(envFile.content,
                             <<"DATABASE_URL=">> \o dbUrl(SuppliedConfig(env)) \o <<"\n">>)
                 /\ Contains(envFile.content, <<"JWT_SECRET=", "test-jwt-secret", "\n">>)
                 /\ Contains(envFile.content, <<"COOKIE_SECRET=", "test-cookie-secret", "\n">>)

(***************************************************************************)
(* C10                                                                     *)
(***************************************************************************)
\* C10: both prerequisite checkers end with exit code 1 exactly when node
\* or npm is missing, and with exit code 0 otherwise.
C10_CheckerExitCode ==
    (prog \in {"check", "checkpf"} /\ pc = "exited")
        => /\ exitCode \in {0, 1}
           /\ exitCode = 1 <=> (~checks.node \/ ~checks.npm)

(***************************************************************************)
(* C11                                                                     *)
(***************************************************************************)
\* C11: for every tool and every outcome of its version command, the
\* generic check of the installers (commandExists) and of the checkers
\* (checkCommand) returns installed exactly when the command completed
\* successfully, returns not installed for a missing binary, a non-zero
\* exit and any other failure alike, and never throws to its caller.
C11_CheckNeverThrows ==
    (callArgs.fn \in {"commandExists", "checkCommand"})
        => /\ callResult.installed = (callArgs.outcome = "ok")
           /\ ~callResult.threw

\* the version command of an installed tool exited with a failure code
C11_Witness ==
    /\ callArgs.fn = "commandExists"
    /\ callArgs.outcome = "non-zero exit"
    /\ ~callResult.installed
    /\ pc = "f_returned"

(***************************************************************************)
(* C12                                                                     *)
(***************************************************************************)
KeysOf(map) == {map[k][1] : k \in 1..Len(map)}

\* the placeholders of the replacements' keys that match at position i
HitsAt(content, map, i) ==
    {k \in 1..Len(map) : MatchesAt(content, TokenOf(map[k][1]), i)}

\* the template with every placeholder of a key of the replacements
\* replaced by that key's value as it stands, and everything else kept
RECURSIVE Substituted(_, _, _)
Substituted(content, map, i) ==
    IF i > Len(content) THEN <<>>
    ELSE IF HitsAt(content, map, i) # {}
         THEN LET k == CHOOSE k \in HitsAt(content, map, i) : TRUE
              IN  map[k][2]
                      \o Substituted(content, map,
                                     i + Len(TokenOf(map[k][1])))
    ELSE <<content[i]>> \o Substituted(content, map, i + 1)

\* C12: for every template and replacement map, processTemplate returns
\* the template with each {{KEY}} of a key in the map replaced by exactly
\* the map's value, every other placeholder and all other text unchanged.
C12_ExactSubstitution ==
    (callArgs.fn = "processTemplate")
        => callResult.content = Substituted(callArgs.template, callArgs.replacements, 1)

(***************************************************************************)
(* C13                                                                     *)
(***************************************************************************)
\* every placeholder of the template has its key in the replacements
AllKeysResolved(template, map) ==
    \A k \in Keys : Contains(template, TokenOf(k)) => k \in KeysOf(map)

PlainValue(v) ==
    /\ \A i \in 1..Len(v) : v[i] \notin {"{", "}"}
    /\ \A i \in 1..(Len(v) - 1) :
          v[i] = "$" => v[i + 1] \notin {"&", Backquote, Apostrophe}

PlainValues(map) ==
    \A k \in 1..Len(map) : PlainValue(map[k][2])

HexAlphabet ==
    {"0", "1", "2", "3", "4", "5", "6", "7", "8", "9", "a", "b", "c", "d", "e", "f"}

\* C14: for every byte length n, generateSecret(n) returns a string of
\* exactly 2n characters, each of them one of 0-9 and a-f.
C14_SecretIsHexOfTwiceTheLength ==
    (callArgs.fn = "generateSecret")
        => /\ Len(callResult.secret) = 2 * callArgs.length
           /\ \A i \in 1..Len(callResult.secret) : callResult.secret[i] \in HexAlphabet

\* a secret of two bytes, the first of them below 16
C14_Witness ==
    /\ callArgs.fn = "generateSecret"
    /\ callArgs.length = 2
    /\ callArgs.bytes = <<9, 171>>
    /\ callResult.secret = <<"0", "9", "a", "b">>

(***************************************************************************)
(* C15                                                                     *)
(***************************************************************************)
\* C15: in a run of install-backend.js, once an external process has been
\* invoked the database configuration and the replacements object, both
\* secrets included, have been built.
C15_ConfigBeforeFirstProcess ==
    (prog = "backend" /\ invocations # <<>>)
        => /\ dbConfig.built
           /\ replacements.built

\* C15 (amended): in a run of install-backend.js the database
\* configuration has been built before the first installer or build
\* command is invoked (the version checks of checkPrerequisites come
\* before it) and never changes afterwards; the replacements object is
\* built later, by createEnvFile after installMedusa has returned and
\* only when the template exists, from the values of the database
\* configuration, and never changes afterwards.
C15_ConfigBuiltOnceInStepOrder ==
    /\ [](prog = "backend" /\ InstallerInvoked => dbConfig.built)
    /\ [][prog = "backend" /\ dbConfig.built => dbConfig' = dbConfig]_vars
    /\ [](prog = "backend" /\ replacements.built =>
            /\ templateExists
            /\ dbConfig.built
            /\ Len(finished) >= 4
            /\ finished[4] = "installMedusa"
            /\ Len(started) >= 5
            /\ started[5] = "createEnvFile"
            /\ SubSeq(replacements.entries, 1, 5)
                   = SubSeq(replacementsOf(dbConfig, <<>>, <<>>), 1, 5))
    /\ [][prog = "backend" /\ replacements.built => replacements' = replacements]_vars

\* a run that rendered the template has ended successfully
C15_Witness ==
    /\ prog = "backend"
    /\ replacements.built
    /\ dbConfig.built
    /\ pc = "exited"
    /\ exitCode = 0

(***************************************************************************)
(* C16                                                                     *)
(***************************************************************************)
\* the optional post-steps of install-backend.js
OptionalSteps == {"createAdminUser", "seedDatabase", "copyAdditionalFiles"}

\* C16: in install-backend.js no failure of an optional post-step (admin
\* user creation, database seeding, additional file copy) reaches the
\* top-level error handler, and a run that has got as far as the optional
\* post-steps runs every remaining step and ends with exit code 0.
C16_OptionalStepFailureOnlyLogged ==
    (prog = "backend")
        => /\ failedStep \notin OptionalSteps
           /\ (pc = "exited" /\ Len(started) >= 7)
                 => /\ exitCode = 0
                    /\ started = BackendSteps
                    /\ finished = BackendSteps

(***************************************************************************)
(* C17                                                                     *)
(***************************************************************************)
\* a finished run of the cross-platform checker on Windows
CheckedOnWindows == prog = "checkpf" /\ checks.done /\ checks.isWindows

\* C17: on Windows checkPostgres reports installed through the service
\* query only when the query returned a service of the known prefix whose
\* status is running, and then psql is not invoked; a matching service that
\* is not running, with no installation directory and no psql, yields not
\* installed.
C17_ServiceStrategyNeedsRunningService ==
    CheckedOnWindows
        => /\ (checks.via = "service")
                 => /\ ~checks.sc.throws
                    /\ checks.sc.named
                    /\ checks.sc.running
                    /\ \A i \in 1..Len(invocations) : invocations[i] # "psql --version"
           /\ (/\ ~checks.sc.throws
               /\ checks.sc.named
               /\ ~checks.sc.running
               /\ ~checks.pathExists
               /\ ~checks.psqlOk)
                 => ~checks.postgres

(***************************************************************************)
(* C18                                                                     *)
(***************************************************************************)
\* the detection strategies of checkPostgres, in the order of the code
Strategies == <<"service", "directory", "psql">>

\* C18: checkPostgres tries the service query, the directory probe and the
\* psql version check in that order, each only if all earlier ones did not
\* detect an installation; off Windows only psql is tried; it returns not
\* installed only if every applicable strategy failed; and a service query
\* that throws is followed by the directory probe and, when that finds
\* nothing, by psql.
C18_StrategiesInFixedOrder ==
    (prog = "checkpf" /\ checks.done)
        => LET tried == checks.tried
               n     == Len(tried)
               serviceFailed == checks.sc.throws \/ (~checks.sc.running /\ ~checks.sc.named)
           IN  /\ n >= 1
               /\ IF checks.isWindows
                  THEN tried = SubSeq(Strategies, 1, n)
                  ELSE tried = <<"psql">>
               /\ (checks.isWindows /\ n >= 2) => serviceFailed
               /\ (checks.isWindows /\ n >= 3) => ~checks.pathExists
               /\ checks.postgres => checks.via = tried[n]
               /\ ~checks.postgres
                     => /\ tried[n] = "psql"
                        /\ ~checks.psqlOk
                        /\ checks.isWindows => (serviceFailed /\ ~checks.pathExists)
               /\ (checks.isWindows /\ checks.sc.throws)
                     => /\ n >= 2
                        /\ ~checks.pathExists => n = 3
                        /\ checks.postgres = (checks.pathExists \/ checks.psqlOk)

\* on Windows the service query threw, no installation directory exists and
\* psql answered: all three strategies were tried and psql detected it
C18_Witness ==
    /\ CheckedOnWindows
    /\ checks.sc.throws
    /\ ~checks.pathExists
    /\ checks.tried = Strategies
    /\ checks.postgres
    /\ checks.via = "psql"

(***************************************************************************)
(* C19                                                                     *)
(***************************************************************************)
\* an interactive run of one of the two installers
InteractiveInstaller == prog \in {"backend", "master"} /\ ~isCI

\* C19: in an interactive run of either installer at most one readline
\* interface is open at any time, and one is open exactly while a prompt
\* awaits its answer; a step that issues a prompt issues exactly one and
\* opens exactly one interface, from none open; while a prompt is pending
\* the only step is the arrival of its answer, empty or not, which closes
\* the interface and issues no prompt; and no interface is open when the
\* process has exited.
C19_OneInterfacePerPrompt ==
    [][InteractiveInstaller =>
          /\ rlOpen \in {0, 1}
          /\ rlOpen' \in {0, 1}
          /\ (rlOpen = 1) <=> (pendingPrompt # NoPrompt)
          /\ (rlOpen' = 1) <=> (pendingPrompt' # NoPrompt)
          /\ (prompts' # prompts)
                => /\ rlOpen = 0
                   /\ rlOpen' = 1
                   /\ prompts' = Append(prompts, pendingPrompt')
          /\ (rlOpen' > rlOpen) => (prompts' # prompts)
          /\ (pendingPrompt # NoPrompt)
                => /\ rlOpen' = 0
                   /\ pendingPrompt' = NoPrompt
                   /\ prompts' = prompts
          /\ (pc' = "exited") => (rlOpen' = 0)]_vars

\* an interactive backend installation ran to its end through all of its
\* prompts, the password prompt answered with the empty line, with no
\* interface left open
C19_Witness ==
    /\ prog = "backend"
    /\ ~isCI
    /\ pc = "exited"
    /\ exitCode = 0
    /\ finished = BackendSteps
    /\ Len(prompts) >= 7
    /\ dbConfig.built
    /\ dbConfig.password = <<>>
    /\ rlOpen = 0

(***************************************************************************)
(* C20                                                                     *)
(***************************************************************************)
\* step s of the pipeline has returned
HasFinished(s) == \E i \in 1..Len(finished) : finished[i] = s

\* C20: an interactive run of install-backend.js takes every decision the
\* configuration variables could influence as a run with none of them set
\* takes it, whatever their values: getDatabaseConfig has asked its five
\* questions when it returns, createAdminUser has asked whether to create
\* a user, and seedDatabase has asked whether to seed.
C20_InteractiveIgnoresEnvironment ==
    (prog = "backend" /\ ~isCI)
        => /\ HasFinished("getDatabaseConfig")
                 => \A i \in 1..Len(DbFields) : Asked(DbQuery[DbFields[i]])
           /\ HasFinished("createAdminUser")
                 => Asked("Would you like to create an admin user now? (y/n): ")
           /\ HasFinished("seedDatabase")
                 => Asked("Would you like to seed the database with sample data? (y/n): ")

(***************************************************************************)
(* C21                                                                     *)
(***************************************************************************)
\* the handleError position of the installer that runs
HandlerOf(p) == IF p = "backend" THEN "b_handleError" ELSE "m_handleError"

\* C21: in both installers every failure, be it a step failure, an
\* unhandled rejection or an uncaught exception, is handed with its message
\* to the one handleError of the script, whose only continuation is the end
\* of the process with exit code 1; a run in which a failure occurred is
\* never left running elsewhere and never ends with exit code 0.
C21_FailuresFunnelToHandleError ==
    /\ [][(Installer /\ ~Failed /\ failedStep' # NoStep)
            => /\ pc' = HandlerOf(prog)
               /\ errorMsg' # <<>>
               /\ exitCode' = NoExit]_vars
    /\ [](Installer /\ Failed =>
            /\ pc \in {HandlerOf(prog), "exited"}
            /\ (pc = "exited" => exitCode = 1))
    /\ [][(Installer /\ Failed)
            => /\ pc = HandlerOf(prog)
               /\ pc' = "exited"
               /\ exitCode' = 1
               /\ UNCHANGED errVars]_vars

\* an unhandled rejection arrived while the master installer waited for its
\* child process, and the run ended with exit code 1
C21_Witness ==
    /\ prog = "master"
    /\ failedStep = "unhandledRejection"
    /\ children # {}
    /\ pc = "exited"
    /\ exitCode = 1

(***************************************************************************)
(* C22                                                                     *)
(***************************************************************************)
\* the .env file holds the line `key` followed by value
HasLine(key, value) == Contains(envFile.content, <<key>> \o value \o <<"\n">>)

\* C22: once install-backend.js has written the .env file, from the
\* template or as the basic variant, an automated run has not called
\* generateSecret and the file holds the two fixed strings, while an
\* interactive run has called generateSecret exactly twice and the file
\* holds the result of the first call as JWT secret and of the second as
\* cookie secret, two different tokens.
C22_SecretsPerMode ==
    (prog = "backend" /\ envFile.exists)
        => IF isCI
           THEN /\ secretCalls = 0
                /\ HasLine("JWT_SECRET=", <<"test-jwt-secret">>)
                /\ HasLine("COOKIE_SECRET=", <<"test-cookie-secret">>)
           ELSE /\ secretCalls = 2
                /\ HasLine("JWT_SECRET=", generateSecret(1))
                /\ HasLine("COOKIE_SECRET=", generateSecret(2))
                /\ generateSecret(1) # generateSecret(2)
                /\ ~HasLine("COOKIE_SECRET=", generateSecret(1))

\* an interactive run wrote the basic variant with two generated secrets
C22_Witness ==
    /\ prog = "backend"
    /\ ~isCI
    /\ ~templateExists
    /\ envFile.exists
    /\ secretCalls = 2
    /\ HasLine("JWT_SECRET=", generateSecret(1))

(***************************************************************************)
(* C23                                                                     *)
(***************************************************************************)
\* C23: in install-backend.js handleError and the process exit change
\* nothing on disk, and a step that fails after installMedusa has returned
\* leaves the backend directory and the .env file as the completed steps
\* left them: nothing is removed and nothing is rewritten.
C23_NoRollbackOnFailure ==
    /\ [][(prog = "backend" /\ pc = "b_handleError")
            => /\ pc' = "exited"
               /\ UNCHANGED <<targetExists, envFile, rmCalls>>]_vars
    /\ [][(prog = "backend" /\ HasFinished("installMedusa") /\ failedStep' # NoStep)
            => UNCHANGED <<targetExists, envFile, rmCalls>>]_vars
    /\ [](prog = "backend" /\ Failed /\ HasFinished("installMedusa") => targetExists)
    /\ [](prog = "backend" /\ Failed /\ HasFinished("createEnvFile") => envFile.exists)

\* the migrations failed and the run ended with the directory and the .env
\* file still on disk
C23_Witness ==
    /\ prog = "backend"
    /\ failedStep = "runMigrations"
    /\ pc = "exited"
    /\ exitCode = 1
    /\ targetExists
    /\ envFile.exists
    /\ envFile.content # <<>>

(***************************************************************************)
(* C24                                                                     *)
(***************************************************************************)
\* C24: a run of install.js or of install-backend.js on a Node.js whose
\* major version is below 18 invokes no installer or build command, and
\* when it has ended it has ended with exit code 1.
C24_OldNodeIsFatal ==
    (Installer /\ nodeMajor < MinNodeMajor)
        => /\ ~InstallerInvoked
           /\ pc = "exited" => exitCode = 1

(***************************************************************************)
(* C25                                                                     *)
(***************************************************************************)
PostgresQuery == "Do you have PostgreSQL installed and running? (y/n): "

\* where main of the installer that runs is while checkPrerequisites runs,
\* while its confirmation is pending, and after it has returned true
PrerequisitesPc(p) == IF p = "backend" THEN "b_checkPrerequisites" ELSE "m_checkPrerequisites"
PostgresAnswerPc(p) ==
    IF p = "backend" THEN "b_checkPrerequisites_answer" ELSE "m_checkPrerequisites_answer"
AfterPrerequisitesPc(p) == IF p = "backend" THEN "b_checkExistingBackend" ELSE "m_confirm"

\* the number of times query q has been issued
TimesAsked(q) == Cardinality({i \in 1..Len(prompts) : prompts[i] = q})

\* C25: when checkPrerequisites of either installer gets as far as the
\* PostgreSQL check (node and npm are present, and in install.js the Node
\* version floor is met) and psql is not detected, an automated run issues
\* no prompt and goes on, while an interactive run issues the confirmation
\* prompt exactly once; an answer of y or yes in any mix of cases lets it
\* go on, and any other answer ends it with exit code 1 with no installer
\* invoked.
C25_MissingPostgresDegradesToPrompt ==
    /\ [][(/\ Installer
           /\ pc = PrerequisitesPc(prog)
           /\ checks'.done /\ checks'.node /\ checks'.npm /\ ~checks'.postgres
           /\ (prog = "master" => nodeMajor >= MinNodeMajor))
            => IF isCI
               THEN /\ prompts' = prompts
                    /\ pendingPrompt' = NoPrompt
                    /\ pc' = AfterPrerequisitesPc(prog)
                    /\ exitCode' = NoExit
               ELSE /\ prompts' = Append(prompts, PostgresQuery)
                    /\ pendingPrompt' = PostgresQuery
                    /\ pc' = PostgresAnswerPc(prog)]_vars
    /\ [][(Installer /\ pc = PostgresAnswerPc(prog))
            => /\ prompts' = prompts
               /\ IF lastAnswer' \in AffirmativeLines
                  THEN /\ pc' = AfterPrerequisitesPc(prog)
                       /\ exitCode' = NoExit
                  ELSE /\ pc' = "exited"
                       /\ exitCode' = 1
                       /\ ~InstallerInvoked']_vars
    /\ [](Installer => TimesAsked(PostgresQuery) <= 1)
    /\ [](Installer /\ TimesAsked(PostgresQuery) = 1
            => ~isCI /\ checks.done /\ ~checks.postgres)

\* an interactive run of install.js without psql was confirmed with a yes
\* in mixed case and went on to its install steps
C25_Witness ==
    /\ prog = "master"
    /\ ~isCI
    /\ checks.done
    /\ ~checks.postgres
    /\ TimesAsked(PostgresQuery) = 1
    /\ InstallerInvoked

(***************************************************************************)
(* C26                                                                     *)
(***************************************************************************)
\* the defaults the prompts of getDatabaseConfig show in brackets
BracketDefault ==
    [ host |-> <<"localhost">>, port |-> <<"5432">>, user |-> <<"postgres">>,
      name |-> <<"medusa-store">> ]

\* getDatabaseConfig is about to receive the answer to one of its prompts
DbAnswerDue == prog = "backend" /\ ~isCI /\ pc = "b_getDatabaseConfig_answer"

\* the field that answer is for, and the value kept for it by the step
\* that receives the answer (primed: used inside action formulas)
DbFieldDue == DbFields[Len(answers) + 1]
DbValueKept ==
    IF Len(answers) + 1 < Len(DbFields)
    THEN answers'[Len(answers) + 1]
    ELSE dbConfig'.name

\* the object getDatabaseConfig returns holds the values kept, field by
\* field
DbConfigFromKept ==
    dbConfig'.built
        => /\ dbConfig'.host = answers[1]
           /\ dbConfig'.port = answers[2]
           /\ dbConfig'.user = answers[3]
           /\ dbConfig'.password = answers[4]

\* C26: in interactive mode, for every field getDatabaseConfig prompts for
\* (host, port, user, password, name), an empty answer gives the field a
\* non-empty default and a non-empty answer is used verbatim.
C26_EveryFieldHasDefault ==
    [][DbAnswerDue
         => /\ (lastAnswer' = <<>>) => (DbValueKept # <<>>)
            /\ (lastAnswer' # <<>>) => (DbValueKept = lastAnswer')
            /\ DbConfigFromKept]_vars

\* C26, amended: in interactive mode an empty answer for host, port, user
\* or name gives the field the default its prompt shows in brackets
\* (localhost, 5432, postgres, medusa-store) and a non-empty answer is used
\* verbatim; the password has no default and is used as typed, the empty
\* line included.
C26_BracketDefaultsExceptPassword ==
    [][DbAnswerDue
         => /\ IF DbFieldDue = "password"
               THEN DbValueKept = lastAnswer'
               ELSE /\ (lastAnswer' = <<>>) => /\ DbValueKept = BracketDefault[DbFieldDue]
                                               /\ DbValueKept # <<>>
                    /\ (lastAnswer' # <<>>) => (DbValueKept = lastAnswer')
            /\ DbConfigFromKept]_vars

\* an interactive run answered the host prompt with the empty line, typed
\* a port, and gave the empty line as password
C26_Witness ==
    /\ prog = "backend"
    /\ ~isCI
    /\ dbConfig.built
    /\ dbConfig.host = <<"localhost">>
    /\ dbConfig.port = <<"5433">>
    /\ dbConfig.password = <<>>
    /\ Len(prompts) >= Len(DbFields)

(***************************************************************************)
(* C27                                                                     *)
(***************************************************************************)
\* the same key/value pairs, listed in the opposite order
Reversed(map) == [i \in 1..Len(map) |-> map[Len(map) + 1 - i]]

\* C27: for every template and every replacement map, processTemplate
\* returns the same string when the pairs of the map are processed in the
\* opposite order, values that hold the {{KEY}} token of another key
\* included.
C27_KeyOrderIrrelevant ==
    (callArgs.fn = "processTemplate")
        => processTemplate(callArgs.template, Reversed(callArgs.replacements))
               = callResult.content

(***************************************************************************)
(* C28                                                                     *)
(***************************************************************************)
\* command c has been handed to execSync or spawn
Invoked(c) == \E i \in 1..Len(invocations) : invocations[i] = c

\* C28: in install.js the headers printed so far are [1/5], [2/5], ...,
\* [k/5], one for each of the five numbered steps started so far, in the
\* order of the steps; a header is printed exactly when its step starts,
\* and whatever a step has done (its tool checks, its install command, its
\* verdict) is there only once its header is.
C28_HeadersCountTheSteps ==
    /\ [](prog = "master" =>
            /\ Len(headers) = (IF Len(started) <= 5 THEN Len(started) ELSE 5)
            /\ \A i \in 1..Len(headers) :
                  /\ headers[i] = [step |-> i, total |-> 5]
                  /\ started[i] = MasterSteps[i]
            /\ checks.done => Len(headers) >= 1
            /\ Invoked("npm install (root)") => Len(headers) >= 2
            /\ Invoked("npm install (storefront)") => Len(headers) >= 3
            /\ Invoked("node scripts/install-backend.js") => Len(headers) >= 4
            /\ (allGood # "not verified") => Len(headers) = 5)
    /\ [][(prog = "master" /\ headers' # headers)
            => /\ started' = Append(started, MasterSteps[Len(headers) + 1])
               /\ headers' = Append(headers, [step |-> Len(headers) + 1, total |-> 5])]_vars

\* a complete run of install.js has printed the five headers
C28_Witness ==
    /\ prog = "master"
    /\ pc = "exited"
    /\ exitCode = 0
    /\ Len(headers) = 5
    /\ headers[5] = [step |-> 5, total |-> 5]
    /\ started = MasterSteps

(***************************************************************************)
(* C29                                                                     *)
(***************************************************************************)
\* C29: an automated run of install-backend.js or install.js, whose
\* external commands all end, ends itself, with exit code 0 or 1, whatever
\* the tool checks, the existing target and the outcomes of the commands
\* are; it never opens a prompt on the way.
C29_AutomatedRunTerminates ==
    (Installer /\ isCI)
        => /\ <>(pc = "exited" /\ exitCode \in {0, 1})
           /\ [](pendingPrompt = NoPrompt /\ rlOpen = 0)

\* an automated run of install-backend.js went through every step and
\* ended with exit code 0
C29_Witness ==
    /\ prog = "backend"
    /\ isCI
    /\ finished = BackendSteps
    /\ prompts = <<>>
    /\ pc = "exited"
    /\ exitCode = 0

(***************************************************************************)
(* C30                                                                     *)
(***************************************************************************)
\* the installer of installMedusa is spawned in this step
SpawnsInstaller ==
    /\ invocations' # invocations
    /\ invocations'[Len(invocations')] = "npx create-medusa-app"

\* C30: install-backend.js spawns the external installer only when the
\* backend directory does not exist and checkExistingBackend has returned,
\* having found the directory absent or having removed it; and the
\* directory is removed only by checkExistingBackend, through fs.rmSync.
C30_InstallerRunsOnAbsentTarget ==
    /\ [][(prog = "backend" /\ SpawnsInstaller)
            => /\ ~targetExists
               /\ HasFinished("checkExistingBackend")
               /\ ~HasFinished("installMedusa")]_vars
    /\ [][(prog = "backend" /\ targetExists /\ ~targetExists')
            => /\ started'[Len(started')] = "checkExistingBackend"
               /\ rmCalls' = rmCalls + 1]_vars
    /\ [](prog = "backend" /\ pc = "b_installMedusa" => ~targetExists)

\* an interactive run confirmed the removal of an existing directory and
\* went on to spawn the installer
C30_Witness ==
    /\ prog = "backend"
    /\ ~isCI
    /\ rmCalls = 1
    /\ Asked(RemovalQuery)
    /\ ~targetExists
    /\ Invoked("npx create-medusa-app")
    /\ pc = "b_installMedusa_wait"

(***************************************************************************)
(* C31                                                                     *)
(***************************************************************************)
\* C31: install.js lets its installBackend step return, logging 'Backend
\* installed successfully', only if the install-backend.js child ran its
\* steps to the end; a child that ended on a declined reinstall does not
\* count as an installation.
C31_BackendStepSucceedsOnlyIfInstalled ==
    (prog = "master" /\ HasFinished("installBackend"))
        => childEnded = "completed"

(***************************************************************************)
(* C32                                                                     *)
(***************************************************************************)
\* C32: install.js prints its final banner and ends with exit code 0 only
\* if verifyWorkspaces found the backend directory, both node_modules
\* directories and the backend .env file.
C32_SuccessOnlyIfVerified ==
    (prog = "master")
        => /\ HasFinished("printFinalInstructions") => allGood = "yes"
           /\ (pc = "exited" /\ exitCode = 0) => allGood = "yes"

====
